---- MODULE Spec2Model ----
(***************************************************************************)
(* Ensemble calibration (EMOS / NGR) plugins of improver:                  *)
(*   ContinuousRankedProbabilityScoreMinimisers,                           *)
(*   EstimateCoefficientsForEnsembleCalibration,                           *)
(*   ApplyCoefficientsFromEnsembleCalibration.                             *)
(*                                                                         *)
(* Numbers are extended rationals <<n, d>>: d > 0 is the finite value n/d  *)
(* in lowest terms, <<0,0>> is NaN, <<1,0>> is +inf and <<-1,0>> is -inf,  *)
(* with the IEEE rules for the special values (x/0, 0/0, inf-inf, 0*inf).  *)
(* Rounding to float32 and the sign of zero are not modelled.              *)
(***************************************************************************)
EXTENDS Integers, Sequences, FiniteSets, TLC

VARIABLES
    pc,                 \* position of the call in progress / last call made
    plugin,             \* fields of the plugin instance (self)
    args,               \* arguments of the call, as passed
    locals,             \* local variables of the call, and the state of its
                        \* mutable arguments when it ended
    result,             \* value returned by the last call
    raised,             \* error raised by the last call ("none" if it returned)
    warned,             \* warnings emitted by the last call
    minimize_calls      \* number of times scipy's minimize has been invoked

vars == <<pc, plugin, args, locals, result, raised, warned, minimize_calls>>

-----------------------------------------------------------------------------
(* Bounds of the model *)

\* largest ensemble size (number of realizations)
MaxMembers == 2
\* largest number of grid points of a field (ylen * xlen)
MaxPoints == 2

-----------------------------------------------------------------------------
(* Extended rational arithmetic (numpy float semantics without rounding) *)

Abs(n) == IF n < 0 THEN -n ELSE n

Sign(n) == IF n < 0 THEN -1 ELSE IF n > 0 THEN 1 ELSE 0

RECURSIVE Gcd(_, _)
Gcd(a, b) == IF b = 0 THEN a ELSE Gcd(b, a % b)

Norm(n, d) ==
    IF d = 0 THEN <<Sign(n), 0>>
    ELSE LET g == Gcd(Abs(n), Abs(d))
             s == IF d < 0 THEN -1 ELSE 1
         IN  <<(s * n) \div g, (s * d) \div g>>

Q(n) == <<n, 1>>
NaN == <<0, 0>>
PosInf == <<1, 0>>
NegInf == <<-1, 0>>

IsNaN(a) == a = NaN
IsFinite(a) == a[2] > 0
IsInf(a) == a[2] = 0 /\ a[1] # 0

Neg(a) == <<-a[1], a[2]>>

Add(a, b) ==
    IF IsNaN(a) \/ IsNaN(b) THEN NaN
    ELSE IF IsInf(a) /\ IsInf(b) THEN (IF a = b THEN a ELSE NaN)
    ELSE IF IsInf(a) THEN a
    ELSE IF IsInf(b) THEN b
    ELSE Norm(a[1] * b[2] + b[1] * a[2], a[2] * b[2])

Sub(a, b) == Add(a, Neg(b))

Mul(a, b) == Norm(a[1] * b[1], a[2] * b[2])

Inv(a) == IF a[1] < 0 THEN Norm(-a[2], -a[1]) ELSE Norm(a[2], a[1])

Div(a, b) == Mul(a, Inv(b))

Sq(a) == Mul(a, a)

\* a < b as floats compare: false as soon as one side is NaN
Less(a, b) ==
    /\ ~IsNaN(a)
    /\ ~IsNaN(b)
    /\ IF a[2] = 0 /\ b[2] = 0 THEN a[1] < b[1]
       ELSE a[1] * b[2] < b[1] * a[2]

RECURSIVE SumSeq(_)
SumSeq(s) == IF s = <<>> THEN Q(0) ELSE Add(s[1], SumSeq(Tail(s)))

\* np.dot of two vectors of the same length
Dot(x, y) == SumSeq([i \in 1..Len(x) |-> Mul(x[i], y[i])])

HasNaN(s) == \E i \in 1..Len(s) : IsNaN(s[i])

-----------------------------------------------------------------------------
(* Strings: str.lower() and str.replace("_", " ") on the strings used *)

PredictorFlags == {"mean", "Mean", "realizations", "REALIZATIONS", "median"}

Distributions ==
    {"gaussian", "Gaussian", "truncated gaussian", "truncated_gaussian", "poisson"}

Lower(s) ==
    CASE s = "Mean" -> "mean"
      [] s = "REALIZATIONS" -> "realizations"
      [] s = "Gaussian" -> "gaussian"
      [] OTHER -> s

\* ensemble_calibration_utilities.check_predictor_of_mean_flag: TRUE when
\* the flag is accepted, FALSE when it raises
check_predictor_of_mean_flag(flag) == Lower(flag) \in {"mean", "realizations"}

-----------------------------------------------------------------------------
(* Gridded fields (iris cubes) as the plugins read them *)

\* the coefficient name of one realization: "beta" + str(np.int32(r))
BetaName(r) == "beta" \o ToString(r)

RealizationIds == 0..(MaxMembers - 1)

\* str.startswith("beta") on the coefficient names that occur
StartsWithBeta(name) ==
    name = "beta" \/ \E r \in RealizationIds : name = BetaName(r)

\* a cube with a realization axis: data[m][p] is member m at grid point p
Cube(realization, data, units, fp, time, frt) ==
    [realization |-> realization, data |-> data, units |-> units,
     forecast_period |-> fp, time |-> time, forecast_reference_time |-> frt]

NPoints(cube) == Len(cube.data[1])

\* iris: cube.collapsed("realization", iris.analysis.MEAN)
CollapsedMean(cube) ==
    LET n == Len(cube.data)
    IN  [cube EXCEPT
            !.realization = <<>>,
            !.data = [p \in 1..NPoints(cube) |->
                        Div(SumSeq([m \in 1..n |-> cube.data[m][p]]), Q(n))]]

\* iris: cube.collapsed("realization", iris.analysis.VARIANCE), the sample
\* variance (ddof = 1), which is 0/0 = NaN for a single member
CollapsedVariance(cube) ==
    LET n == Len(cube.data)
        mean == CollapsedMean(cube).data
    IN  [cube EXCEPT
            !.realization = <<>>,
            !.data = [p \in 1..NPoints(cube) |->
                        Div(SumSeq([m \in 1..n |->
                                      Sq(Sub(cube.data[m][p], mean[p]))]),
                            Q(n - 1))]]

\* convert_cube_data_to_2d(cube): rows are grid points, columns are members
convert_cube_data_to_2d(cube) ==
    [p \in 1..NPoints(cube) |-> [m \in 1..Len(cube.data) |-> cube.data[m][p]]]

\* the coefficients cube: coefficient_name points, data and scalar coordinates
CoefficientsCube(names, data, fp, time, frt) ==
    [names |-> names, data |-> data,
     forecast_period |-> fp, time |-> time, forecast_reference_time |-> frt]

NoValue == [none |-> TRUE]

\* the element of a one-element set; a value bound by {f(x) : x \in {e}}
\* is computed once
The(S) == CHOOSE x \in S : TRUE

-----------------------------------------------------------------------------
(* ApplyCoefficientsFromEnsembleCalibration *)

CoordNames == <<"forecast_period", "time", "forecast_reference_time">>

\* cube.coord(name): the points of the coordinate, {} when the cube has no
\* such coordinate (CoordinateNotFoundError)
Coord(cube, name) ==
    CASE name = "forecast_period" -> cube.forecast_period
      [] name = "time" -> cube.time
      [] name = "forecast_reference_time" -> cube.forecast_reference_time

\* mutant: a coordinate missing on one side counts as a difference
CoordDiffers_NoSkip(current_forecast, coefficients_cube, name) ==
    Coord(current_forecast, name) # Coord(coefficients_cube, name)

\* the comparison made for one coordinate name in __init__: a coordinate
\* that either cube lacks raises CoordinateNotFoundError, which is passed over
CoordDiffers(current_forecast, coefficients_cube, name) ==
    /\ Coord(current_forecast, name) # {}
    /\ Coord(coefficients_cube, name) # {}
    /\ Coord(current_forecast, name) # Coord(coefficients_cube, name)

\* __init__: the error raised, "none" when the instance is constructed
ApplyInitRaises(current_forecast, coefficients_cube, predictor_of_mean_flag) ==
    IF \E i \in 1..Len(CoordNames) :
           CoordDiffers(current_forecast, coefficients_cube, CoordNames[i])
    THEN "CoefficientForecastMismatchError"
    ELSE IF ~check_predictor_of_mean_flag(predictor_of_mean_flag)
    THEN "InvalidModeError"
    ELSE "none"

\* dict(zip(names, data)): zip stops at the shorter of the two
ZipLen(cube) ==
    IF Len(cube.names) < Len(cube.data) THEN Len(cube.names) ELSE Len(cube.data)

HasKey(cube, key) == \E i \in 1..ZipLen(cube) : cube.names[i] = key

\* optimised_coeffs[key]: a later duplicate of a key overwrites the earlier
Lookup(cube, key) ==
    LET last == CHOOSE i \in 1..ZipLen(cube) :
                    /\ cube.names[i] = key
                    /\ \A j \in (i + 1)..ZipLen(cube) : cube.names[j] # key
    IN  cube.data[last]

\* the keys of the dict in insertion order (indices of first occurrence)
RECURSIVE KeysFrom(_, _)
KeysFrom(cube, i) ==
    IF i > ZipLen(cube) THEN <<>>
    ELSE IF \E j \in 1..(i - 1) : cube.names[j] = cube.names[i]
    THEN KeysFrom(cube, i + 1)
    ELSE <<cube.names[i]>> \o KeysFrom(cube, i + 1)

\* the loop over optimised_coeffs.keys() collecting the beta values
BetaValues(cube) ==
    LET keys == KeysFrom(cube, 1)
        betas == SelectSeq(keys, StartsWithBeta)
    IN  [i \in 1..Len(betas) |-> Lookup(cube, betas[i])]

\* mutant: alpha and beta exchanged
PredictedMeanOfMean_Swapped(coefficients_cube, forecast_predictors) ==
    [p \in 1..Len(forecast_predictors.data) |->
        Dot(<<Q(1), forecast_predictors.data[p]>>,
            <<Lookup(coefficients_cube, "beta"),
              Lookup(coefficients_cube, "alpha")>>)]

\* predicted mean in mean mode: np.dot([1, mean], [alpha, beta]) per point
PredictedMeanOfMean(coefficients_cube, forecast_predictors) ==
    LET a_and_b == <<Lookup(coefficients_cube, "alpha"),
                     Lookup(coefficients_cube, "beta")>>
    IN  [p \in 1..Len(forecast_predictors.data) |->
            Dot(<<Q(1), forecast_predictors.data[p]>>, a_and_b)]

\* mutant: the member weights are beta, not beta**2
PredictedMeanOfRealizations_NoSquare(coefficients_cube, forecast_predictors) ==
    LET flat == convert_cube_data_to_2d(forecast_predictors)
    IN  [p \in 1..Len(flat) |->
            Dot(<<Q(1)>> \o flat[p],
                <<Lookup(coefficients_cube, "alpha")>> \o
                BetaValues(coefficients_cube))]

\* predicted mean in realizations mode:
\* np.dot([1, members...], [alpha, beta**2...]) per point
PredictedMeanOfRealizations(coefficients_cube, forecast_predictors) ==
    LET beta_values == BetaValues(coefficients_cube)
        a_and_b == <<Lookup(coefficients_cube, "alpha")>> \o
                   [i \in 1..Len(beta_values) |-> Sq(beta_values[i])]
        flat == convert_cube_data_to_2d(forecast_predictors)
    IN  [p \in 1..Len(flat) |-> Dot(<<Q(1)>> \o flat[p], a_and_b)]

\* mutant: gamma and delta are not squared
PredictedVariance_NoSquare(coefficients_cube, forecast_vars) ==
    [p \in 1..Len(forecast_vars.data) |->
        Add(Lookup(coefficients_cube, "gamma"),
            Mul(Lookup(coefficients_cube, "delta"), forecast_vars.data[p]))]

\* predicted variance = gamma**2 + delta**2 * raw variance, per point
PredictedVariance(coefficients_cube, forecast_vars) ==
    [p \in 1..Len(forecast_vars.data) |->
        Add(Sq(Lookup(coefficients_cube, "gamma")),
            Mul(Sq(Lookup(coefficients_cube, "delta")), forecast_vars.data[p]))]

\* _apply_params: the error raised ("none" if it returns) and the two cubes
\* returned; a missing dict key is a KeyError, and np.dot raises when the
\* number of columns differs from the number of coefficients
apply_params(self, forecast_predictors, forecast_vars) ==
    LET cc == self.coefficients_cube
        mode == Lower(self.predictor_of_mean_flag)
        failure ==
            IF mode = "mean"
            THEN IF ~HasKey(cc, "alpha") \/ ~HasKey(cc, "beta")
                 THEN "KeyError" ELSE "none"
            ELSE IF ~HasKey(cc, "alpha") THEN "KeyError"
                 ELSE IF Len(BetaValues(cc)) # Len(forecast_predictors.data)
                 THEN "ShapeMismatchError" ELSE "none"
        failure_var ==
            IF ~HasKey(cc, "gamma") \/ ~HasKey(cc, "delta")
            THEN "KeyError" ELSE "none"
    IN  IF failure # "none"
        THEN [raised |-> failure, predictor |-> NoValue, variance |-> NoValue]
        ELSE IF failure_var # "none"
        THEN [raised |-> failure_var, predictor |-> NoValue,
              variance |-> NoValue]
        ELSE [raised |-> "none",
              predictor |->
                  IF mode = "mean"
                  THEN [forecast_predictors EXCEPT
                           !.data = PredictedMeanOfMean(cc, forecast_predictors)]
                  ELSE [CollapsedMean(forecast_predictors) EXCEPT
                           !.data = PredictedMeanOfRealizations(
                                        cc, forecast_predictors)],
              variance |->
                  [forecast_vars EXCEPT
                      !.data = PredictedVariance(cc, forecast_vars)]]

\* the cube that forecast_predictors names in apply_params_entry: a new
\* cube made by collapsed(), or the current forecast itself
ForecastPredictorsIs(self) ==
    IF Lower(self.predictor_of_mean_flag) = "mean"
    THEN "collapsed current_forecast"
    ELSE "current_forecast"

\* mutant: the predicted mean is written onto forecast_predictors in both
\* modes
CalibratedPredictorIs_NoCollapse(self) == ForecastPredictorsIs(self)

\* the cube that calibrated_forecast_predictor names in _apply_params, whose
\* data is assigned: forecast_predictors in mean mode, a new cube made by
\* forecast_predictors.collapsed() in realizations mode
CalibratedPredictorIs(self) ==
    IF Lower(self.predictor_of_mean_flag) = "mean"
    THEN ForecastPredictorsIs(self)
    ELSE "collapsed forecast_predictors"

\* self.current_forecast as a call of apply_params_entry leaves it
CurrentForecastAfter(self, applied) ==
    IF applied.raised = "none" /\ CalibratedPredictorIs(self) = "current_forecast"
    THEN [self.current_forecast EXCEPT !.data = applied.predictor.data]
    ELSE self.current_forecast

\* apply_params_entry: what _apply_params returns, and the current forecast
\* as the call leaves it
apply_params_entry(self) ==
    LET forecast_predictors ==
            IF Lower(self.predictor_of_mean_flag) = "mean"
            THEN CollapsedMean(self.current_forecast)
            ELSE self.current_forecast
        forecast_vars == CollapsedVariance(self.current_forecast)
    IN  The({[raised |-> applied.raised, predictor |-> applied.predictor,
              variance |-> applied.variance,
              current_forecast |-> CurrentForecastAfter(self, applied)] :
             applied \in {apply_params(self, forecast_predictors,
                                      forecast_vars)}})

-----------------------------------------------------------------------------
(* Inputs of the application engine *)

\* rows of a field over P grid points: the same value everywhere, or a ramp
\* -1, 0, 1, ... across the grid
DataVals == {Q(2), Q(4)}

Rows(P) == {[p \in 1..P |-> v] : v \in DataVals} \cup {[p \in 1..P |-> Q(p - 2)]}

EnsembleData ==
    UNION {[1..N -> Rows(P)] : N \in 1..MaxMembers, P \in 1..MaxPoints}

Realizations(N) == [m \in 1..N |-> m - 1]

MeanNames == <<"gamma", "delta", "alpha", "beta">>

RealizationNames(realization) ==
    <<"gamma", "delta", "alpha">> \o
    [i \in 1..Len(realization) |-> BetaName(realization[i])]

GammaDeltaVals == {<<Q(-1), Q(2)>>, <<Q(0), Q(-1)>>, <<Q(2), Q(0)>>, <<Q(1), Q(1)>>}
AlphaVals == {Q(0), Q(3)}
MeanBetaVals == {Q(-1), Q(0), Q(2)}
MemberBetaVals == {Q(1), Q(-2)}

\* coefficient vectors in the mean layout and in the realizations layout
MeanCoeffs ==
    {<<gd[1], gd[2], a, b>> : gd \in GammaDeltaVals, a \in AlphaVals,
                              b \in MeanBetaVals}

RealizationCoeffs(N) ==
    {<<gd[1], gd[2], a>> \o b : gd \in GammaDeltaVals, a \in AlphaVals,
                                b \in [1..N -> MemberBetaVals]}

CoordVals == {{}, {1}, {2}}

\* pairs <<current forecast, coefficients cube>> with agreeing coordinates
\* over all data and coefficient values
DataPairs ==
    {<<Cube(Realizations(Len(d)), d, "K", {1}, {}, {2}),
       CoefficientsCube(c[1], c[2], {1}, {2}, {})>> :
        d \in EnsembleData,
        c \in {<<MeanNames, v>> : v \in MeanCoeffs} \cup
              UNION {{<<RealizationNames(Realizations(N)), v>> :
                         v \in RealizationCoeffs(N)} : N \in 1..MaxMembers}}

\* pairs over all combinations of present, absent and differing coordinates
CoordPairs ==
    {<<Cube(<<0>>, <<<<Q(2)>>>>, "K", f[1], f[2], f[3]),
       CoefficientsCube(MeanNames, <<Q(1), Q(1), Q(0), Q(1)>>,
                        c[1], c[2], c[3])>> :
        f \in CoordVals \X CoordVals \X CoordVals,
        c \in CoordVals \X CoordVals \X CoordVals}

NoPlugin == [class |-> "none"]

InitApply ==
    /\ pc = "start"
    /\ plugin = NoPlugin
    /\ args = NoValue
    /\ locals = NoValue
    /\ result = NoValue
    /\ raised = "none"
    /\ warned = {}
    /\ minimize_calls = 0

\* ApplyCoefficientsFromEnsembleCalibration(current_forecast,
\*     coefficients_cube, predictor_of_mean_flag)
ApplyConstruct ==
    /\ pc = "start"
    /\ \E pair \in DataPairs \cup CoordPairs,
          flag \in {"mean", "Mean", "realizations", "median"} :
        LET e == ApplyInitRaises(pair[1], pair[2], flag)
        IN  /\ args' = [current_forecast |-> pair[1],
                        coefficients_cube |-> pair[2],
                        predictor_of_mean_flag |-> flag]
            /\ raised' = e
            /\ pc' = IF e = "none" THEN "constructed" ELSE "failed"
            /\ plugin' = IF e = "none"
                         THEN [class |-> "Apply",
                               current_forecast |-> pair[1],
                               coefficients_cube |-> pair[2],
                               predictor_of_mean_flag |-> flag]
                         ELSE NoPlugin
    /\ UNCHANGED <<locals, result, warned, minimize_calls>>

\* ac.apply_params_entry()
ApplyParamsEntry ==
    /\ pc = "constructed"
    /\ plugin.class = "Apply"
    /\ \E r \in {apply_params_entry(plugin)} :
           /\ raised' = r.raised
           /\ result' = [predictor |-> r.predictor, variance |-> r.variance]
           /\ plugin' = [plugin EXCEPT !.current_forecast = r.current_forecast]
           /\ pc' = IF r.raised = "none" THEN "applied" ELSE "failed"
    /\ UNCHANGED <<args, locals, warned, minimize_calls>>

NextApply == ApplyConstruct \/ ApplyParamsEntry

SpecApply == InitApply /\ [][NextApply]_vars

-----------------------------------------------------------------------------
(* Properties of the application engine *)

\* some coordinate is present on both cubes with different points
Mismatching(forecast, coefficients) ==
    \/ /\ forecast.forecast_period # {} /\ coefficients.forecast_period # {}
       /\ forecast.forecast_period # coefficients.forecast_period
    \/ /\ forecast.time # {} /\ coefficients.time # {}
       /\ forecast.time # coefficients.time
    \/ /\ forecast.forecast_reference_time # {}
       /\ coefficients.forecast_reference_time # {}
       /\ forecast.forecast_reference_time # coefficients.forecast_reference_time

\* C2: constructing the application plugin fails with the coefficient/forecast
\* mismatch error exactly when one of forecast_period, time and
\* forecast_reference_time is present on both cubes and differs (a coordinate
\* missing on either side is skipped), and then no instance exists and no
\* calibrated output is produced.
C2_MismatchRejected ==
    pc # "start" =>
        LET mismatch == Mismatching(args.current_forecast,
                                    args.coefficients_cube)
        IN  /\ mismatch =>
                /\ raised = "CoefficientForecastMismatchError"
                /\ pc = "failed"
                /\ plugin = NoPlugin
                /\ result = NoValue
            /\ raised = "CoefficientForecastMismatchError" => mismatch

\* a mismatching time is rejected although forecast_period is skipped
\* because the forecast lacks it
C2_Witness ==
    /\ pc = "failed"
    /\ raised = "CoefficientForecastMismatchError"
    /\ args.current_forecast.forecast_period = {}
    /\ args.coefficients_cube.forecast_period = {1}
    /\ args.current_forecast.time = {1}
    /\ args.coefficients_cube.time = {2}

AppliedIn(mode) ==
    /\ pc = "applied"
    /\ Lower(args.predictor_of_mean_flag) = mode

\* C3: in realizations mode, with a record holding one beta per member of the
\* current forecast, the predicted mean at each grid point is
\* alpha + sum over members m of beta_m^2 * member m's value at that point.
C3_RealizationsMean ==
    (/\ AppliedIn("realizations")
     /\ args.coefficients_cube.names =
            RealizationNames(args.current_forecast.realization)) =>
        LET cf == args.current_forecast
            coeffs == args.coefficients_cube.data
        IN  \A p \in 1..Len(cf.data[1]) :
                result.predictor.data[p] =
                    Add(coeffs[3],
                        SumSeq([m \in 1..Len(cf.data) |->
                                   Mul(Mul(coeffs[3 + m], coeffs[3 + m]),
                                       cf.data[m][p])]))

\* alpha = 0, beta = [1, 1], members 2 and 4 everywhere give 6 everywhere
C3_Witness ==
    /\ AppliedIn("realizations")
    /\ args.coefficients_cube.names = <<"gamma", "delta", "alpha", "beta0", "beta1">>
    /\ SubSeq(args.coefficients_cube.data, 3, 5) = <<Q(0), Q(1), Q(1)>>
    /\ args.current_forecast.data = <<<<Q(2), Q(2)>>, <<Q(4), Q(4)>>>>
    /\ result.predictor.data = <<Q(6), Q(6)>>

\* the raw ensemble mean of a forecast at grid point p
RawMean(cf, p) ==
    Div(SumSeq([m \in 1..Len(cf.data) |-> cf.data[m][p]]), Q(Len(cf.data)))

\* C4: in mean mode the predicted mean at each grid point is
\* alpha + beta * raw ensemble mean, and for beta # 0 subtracting alpha and
\* dividing by beta recovers the raw ensemble mean.
C4_MeanRoundTrip ==
    (AppliedIn("mean") /\ args.coefficients_cube.names = MeanNames) =>
        LET cf == args.current_forecast
            alpha == args.coefficients_cube.data[3]
            beta == args.coefficients_cube.data[4]
        IN  \A p \in 1..Len(cf.data[1]) :
                /\ result.predictor.data[p] =
                       Add(alpha, Mul(beta, RawMean(cf, p)))
                /\ beta # Q(0) =>
                       Div(Sub(result.predictor.data[p], alpha), beta) =
                           RawMean(cf, p)

\* alpha = 3, beta = -1 on members 2 and 4: mean 3 is calibrated to 0
C4_Witness ==
    /\ AppliedIn("mean")
    /\ SubSeq(args.coefficients_cube.data, 3, 4) = <<Q(3), Q(-1)>>
    /\ args.current_forecast.data = <<<<Q(2), Q(2)>>, <<Q(4), Q(4)>>>>
    /\ result.predictor.data = <<Q(0), Q(0)>>

\* the raw ensemble (sample) variance of a forecast at grid point p
RawVariance(cf, p) ==
    Div(SumSeq([m \in 1..Len(cf.data) |->
                   Mul(Sub(cf.data[m][p], RawMean(cf, p)),
                       Sub(cf.data[m][p], RawMean(cf, p)))]),
        Q(Len(cf.data) - 1))

\* C5: in both modes the calibrated variance at each grid point is
\* gamma^2 + delta^2 * raw ensemble variance, and it is not negative when
\* the raw variance is not negative.
C5_Variance ==
    pc = "applied" =>
        LET cf == args.current_forecast
            gamma == args.coefficients_cube.data[1]
            delta == args.coefficients_cube.data[2]
        IN  \A p \in 1..Len(cf.data[1]) :
                /\ result.variance.data[p] =
                       Add(Mul(gamma, gamma),
                           Mul(Mul(delta, delta), RawVariance(cf, p)))
                /\ ~Less(RawVariance(cf, p), Q(0)) /\ ~IsNaN(RawVariance(cf, p))
                       => /\ ~Less(result.variance.data[p], Q(0))
                          /\ ~IsNaN(result.variance.data[p])

\* gamma = -1, delta = 2 on members 2 and 4 (raw variance 2): 1 + 4 * 2 = 9
C5_Witness ==
    /\ AppliedIn("realizations")
    /\ SubSeq(args.coefficients_cube.data, 1, 2) = <<Q(-1), Q(2)>>
    /\ args.current_forecast.data = <<<<Q(2), Q(2)>>, <<Q(4), Q(4)>>>>
    /\ result.variance.data = <<Q(9), Q(9)>>

\* apply_params_entry has been called on a constructed plugin
EntryCalled == pc = "applied" \/ (pc = "failed" /\ plugin # NoPlugin)

\* C15: apply_params_entry leaves the current forecast of the plugin as it
\* was passed to the constructor, in either mode and whether it returns or
\* fails, and leaves the coefficient record as it was; the predicted mean
\* and variance are data of the cubes it returns.
C15_ForecastUnchanged ==
    EntryCalled =>
        /\ plugin.current_forecast = args.current_forecast
        /\ plugin.coefficients_cube = args.coefficients_cube

\* realizations mode with two members: the mean returned differs from both
\* members of the current forecast, which are as they were
C15_Witness ==
    /\ AppliedIn("realizations")
    /\ Len(args.current_forecast.data) = 2
    /\ \A m \in 1..2 : result.predictor.data # args.current_forecast.data[m]
    /\ plugin.current_forecast.data = args.current_forecast.data

\* the mode that the names of a coefficient record imply
ImpliedMode(names) ==
    IF \E i \in 1..Len(names) : names[i] = "beta" THEN "mean"
    ELSE "realizations"

\* C17: applying a coefficient record in the mode that its names do not
\* imply ('beta' for mean mode, 'beta<id>' per member for realizations
\* mode) never returns calibrated fields, for any ensemble size.
C17_ModeMismatchRejected ==
    pc = "applied" =>
        ImpliedMode(args.coefficients_cube.names) =
            Lower(args.predictor_of_mean_flag)

\* with two or more members, or a realizations record in mean mode, the
\* mismatch is rejected
C17_RejectedButSingleMember ==
    (/\ EntryCalled
     /\ ImpliedMode(args.coefficients_cube.names) #
            Lower(args.predictor_of_mean_flag)
     /\ \/ Len(args.current_forecast.data) > 1
        \/ Lower(args.predictor_of_mean_flag) = "mean") =>
        /\ pc = "failed"
        /\ raised \in {"KeyError", "ShapeMismatchError"}
        /\ result.predictor = NoValue

-----------------------------------------------------------------------------
(* EstimateCoefficientsForEnsembleCalibration: construction and packaging *)

\* __init__: the instance attributes; statsmodels_found is whether
\* imp.find_module('statsmodels') succeeds in the running environment
EstimateInit(distribution, current_cycle, desired_units, predictor_of_mean_flag, statsmodels_found) ==
    [class |-> "Estimate",
     ESTIMATE_COEFFICIENTS_FROM_LINEAR_MODEL_FLAG |-> TRUE,
     distribution |-> distribution,
     current_cycle |-> current_cycle,
     desired_units |-> desired_units,
     predictor_of_mean_flag |-> predictor_of_mean_flag,
     coeff_names |-> <<"gamma", "delta", "alpha", "beta">>,
     statsmodels_found |-> statsmodels_found]

\* __init__: the ImportWarning issued when statsmodels is missing and the
\* realizations are the predictor
EstimateInitWarns(predictor_of_mean_flag, statsmodels_found) ==
    IF ~statsmodels_found /\ Lower(predictor_of_mean_flag) = "realizations"
    THEN {"ImportWarning"} ELSE {}

\* a historic forecast: a cube with a name and attributes
HistoricForecast(cube, name, attributes) ==
    [realization |-> cube.realization, data |-> cube.data,
     units |-> cube.units, forecast_period |-> cube.forecast_period,
     time |-> cube.time,
     forecast_reference_time |-> cube.forecast_reference_time,
     name |-> name, attributes |-> attributes]

\* attribute.endswith("model_configuration") on the attribute names used
EndsWithModelConfiguration(attribute) ==
    attribute = "mosg__model_configuration"

\* mutant: the instance's coeff_names are used whatever the predictor is
CoeffNames_Fixed(self, historic_forecast) == self.coeff_names

\* the coefficient names generated for the historic forecast
CoeffNames(self, historic_forecast) ==
    IF Lower(self.predictor_of_mean_flag) = "realizations"
    THEN SubSeq(self.coeff_names, 1, Len(self.coeff_names) - 1) \o
         [i \in 1..Len(historic_forecast.realization) |->
             self.coeff_names[Len(self.coeff_names)] \o
             ToString(historic_forecast.realization[i])]
    ELSE self.coeff_names

\* mutant: the names are built in place on the list of the instance
CoeffNamesAfter_InPlace(self, historic_forecast) ==
    CoeffNames(self, historic_forecast)

\* self.coeff_names as create_coefficients_cube leaves it: the names of the
\* realizations are collected in a list of their own and joined to a slice
\* of self.coeff_names into a new list; the list of the instance is read only
CoeffNamesAfter(self, historic_forecast) == self.coeff_names

\* mutant: the time is the cycle, the forecast period is left out
CoefficientTime_NoPeriod(self, historic_forecast) ==
    IF historic_forecast.time # {} THEN {self.current_cycle} ELSE {}

\* the time coordinate of the coefficients cube: made inside the branch
\* that has found a forecast_period, when the historic forecast has a time
CoefficientTime(self, historic_forecast) ==
    LET fp == historic_forecast.forecast_period
        fp_point == CHOOSE x \in fp : TRUE
    IN  IF fp # {} /\ historic_forecast.time # {}
        THEN {self.current_cycle + fp_point} ELSE {}

\* create_coefficients_cube: the error raised ("none" if it returns) and the
\* cube returned. forecast_reference_time is set to the current cycle and
\* time to the cycle plus the forecast period; several forecast periods
\* cannot be unpacked into one point (nor attached as a scalar coordinate)
create_coefficients_cube(self, optimised_coeffs, historic_forecast) ==
    LET coeff_names == CoeffNames(self, historic_forecast)
        frt_point == self.current_cycle
        fp == historic_forecast.forecast_period
        attributes ==
            {<<"diagnostic_standard_name", historic_forecast.name>>} \cup
            {a \in historic_forecast.attributes :
                EndsWithModelConfiguration(a[1])}
    IN  IF Len(optimised_coeffs) # Len(coeff_names)
        THEN [raised |-> "CoefficientCountMismatchError", cube |-> NoValue]
        ELSE IF Cardinality(fp) > 1
        THEN [raised |-> "ValueError", cube |-> NoValue]
        ELSE [raised |-> "none",
              cube |->
                [names |-> coeff_names,
                 data |-> optimised_coeffs,
                 forecast_reference_time |->
                     IF historic_forecast.forecast_reference_time # {}
                     THEN {frt_point} ELSE {},
                 forecast_period |-> fp,
                 time |-> CoefficientTime(self, historic_forecast),
                 attributes |-> attributes]]

\* historic forecasts over every ensemble size and every combination of
\* present and absent time coordinates
HistoricMetadata ==
    {HistoricForecast(
         Cube(Realizations(N), [m \in 1..N |-> <<Q(2)>>], "K", c[1], c[2], c[3]),
         "air_temperature",
         {<<"mosg__model_configuration", "uk_ens">>, <<"source", "IMPROVER">>}) :
        N \in 1..MaxMembers,
        c \in {{}, {1}, {1, 2}} \X {{}, {1, 2}} \X {{}, {5}}}

\* optimised coefficient vectors of every length from 3 to 4 + MaxMembers
CoeffVectors == {[i \in 1..n |-> Q(i)] : n \in 3..(4 + MaxMembers)}

CurrentCycles == {10, 20}

InitPackage ==
    /\ pc = "start"
    /\ plugin = NoPlugin
    /\ args = NoValue
    /\ locals = NoValue
    /\ result = NoValue
    /\ raised = "none"
    /\ warned = {}
    /\ minimize_calls = 0

\* EstimateCoefficientsForEnsembleCalibration(distribution, current_cycle,
\*     desired_units, predictor_of_mean_flag)
EstimateConstruct ==
    /\ pc = "start"
    /\ \E distribution \in {"gaussian", "truncated gaussian", "poisson"},
          cycle \in CurrentCycles, flag \in PredictorFlags,
          statsmodels_found \in BOOLEAN :
        IF check_predictor_of_mean_flag(flag)
        THEN /\ plugin' = EstimateInit(distribution, cycle, "", flag,
                                       statsmodels_found)
             /\ warned' = EstimateInitWarns(flag, statsmodels_found)
             /\ raised' = "none"
             /\ pc' = "constructed"
        ELSE /\ plugin' = NoPlugin
             /\ warned' = {}
             /\ raised' = "InvalidModeError"
             /\ pc' = "failed"
    /\ UNCHANGED <<args, locals, result, minimize_calls>>

\* ec.create_coefficients_cube(optimised_coeffs, historic_forecast)
CreateCoefficientsCube ==
    /\ pc \in {"constructed", "packaged", "estimated"}
    /\ plugin.class = "Estimate"
    /\ \E optimised_coeffs \in CoeffVectors,
          historic_forecast \in HistoricMetadata :
        LET r == create_coefficients_cube(plugin, optimised_coeffs,
                                          historic_forecast)
        IN  /\ args' = [optimised_coeffs |-> optimised_coeffs,
                        historic_forecast |-> historic_forecast]
            /\ raised' = r.raised
            /\ result' = r.cube
            /\ plugin' = [plugin EXCEPT !.coeff_names =
                              CoeffNamesAfter(plugin, historic_forecast)]
    /\ pc' = "packaged"
    /\ warned' = {}
    /\ locals' = NoValue
    /\ UNCHANGED minimize_calls

NextPackage == EstimateConstruct \/ CreateCoefficientsCube

SpecPackage == InitPackage /\ [][NextPackage]_vars

\* C1: in realizations mode create_coefficients_cube returns only records
\* with exactly 3 + N names (gamma, delta, alpha, then beta<id> per member)
\* and as many values as names; a coefficient vector of any other length
\* fails with the coefficient-count-mismatch error, and for a historic
\* forecast with a single forecast period that is the only failure.
C1_CoefficientCount ==
    (pc = "packaged" /\ Lower(plugin.predictor_of_mean_flag) = "realizations") =>
        LET N == Len(args.historic_forecast.realization)
            n == Len(args.optimised_coeffs)
        IN  /\ raised = "none" =>
                /\ Len(result.names) = 3 + N
                /\ Len(result.data) = Len(result.names)
                /\ SubSeq(result.names, 1, 3) = <<"gamma", "delta", "alpha">>
                /\ \A m \in 1..N :
                       result.names[3 + m] =
                           BetaName(args.historic_forecast.realization[m])
            /\ n # 3 + N <=> raised = "CoefficientCountMismatchError"
            /\ Cardinality(args.historic_forecast.forecast_period) <= 1 =>
                   raised \in {"none", "CoefficientCountMismatchError"}

\* a record of 3 + 2 coefficients for two members, and a rejected vector
C1_Witness ==
    /\ pc = "packaged"
    /\ Lower(plugin.predictor_of_mean_flag) = "realizations"
    /\ Len(args.historic_forecast.realization) = 2
    /\ \/ /\ raised = "none"
          /\ result.names = <<"gamma", "delta", "alpha", "beta0", "beta1">>
          /\ Len(result.data) = 5
       \/ /\ raised = "CoefficientCountMismatchError"
          /\ Len(args.optimised_coeffs) = 4

\* a call of create_coefficients_cube with as many coefficients as names
\* and at most one forecast period
Packageable ==
    /\ pc = "packaged"
    /\ Len(args.optimised_coeffs) = Len(CoeffNames(plugin, args.historic_forecast))
    /\ Cardinality(args.historic_forecast.forecast_period) <= 1

\* C18 as stated: create_coefficients_cube succeeds whichever of
\* forecast_reference_time, forecast_period and time the historic forecast
\* lacks, and each of the three that is present is on the record
\* (forecast_reference_time as the current cycle, time as cycle + period).
C18_AllCarried ==
    Packageable =>
        LET hf == args.historic_forecast
        IN  /\ raised = "none"
            /\ hf.forecast_reference_time # {} =>
                   result.forecast_reference_time = {plugin.current_cycle}
            /\ hf.forecast_period # {} =>
                   result.forecast_period = hf.forecast_period
            /\ hf.time # {} => result.time # {}

\* C18 as amended: create_coefficients_cube succeeds whichever of the three
\* coordinates the historic forecast lacks; forecast_reference_time and
\* forecast_period are carried whenever present, time is carried (as cycle +
\* forecast period) only when forecast_period is present too, and a
\* coordinate that is not carried is absent from the record.
C18_TimeNeedsPeriod ==
    Packageable =>
        LET hf == args.historic_forecast
        IN  /\ raised = "none"
            /\ result.forecast_reference_time =
                   IF hf.forecast_reference_time # {}
                   THEN {plugin.current_cycle} ELSE {}
            /\ result.forecast_period = hf.forecast_period
            /\ \A fp \in hf.forecast_period :
                   hf.time # {} => result.time = {plugin.current_cycle + fp}
            /\ (hf.forecast_period = {} \/ hf.time = {}) => result.time = {}

\* a historic forecast with a time but no forecast_period: the record has
\* the forecast_reference_time and no time
C18_Witness ==
    /\ Packageable
    /\ raised = "none"
    /\ args.historic_forecast.forecast_period = {}
    /\ args.historic_forecast.time # {}
    /\ args.historic_forecast.forecast_reference_time # {}
    /\ result.time = {}
    /\ result.forecast_reference_time = {plugin.current_cycle}

-----------------------------------------------------------------------------
(* ContinuousRankedProbabilityScoreMinimisers: the CRPS objectives *)

\* Maximum iterations for minimisation using Nelder-Mead
MAX_ITERATIONS == 200

\* The tolerated percentage change for the final iteration
TOLERATED_PERCENTAGE_CHANGE == 5

\* An arbitrary value set if an infinite value is detected
BAD_VALUE == 999999

\* the keys of self.minimisation_dict
minimisation_dict == {"gaussian", "truncated gaussian"}

\* mutant: the member weights are not squared in realizations mode
ObjectiveBeta_NoSquare(initial_guess, predictor_of_mean_flag) ==
    SubSeq(initial_guess, 3, Len(initial_guess))

\* beta as the objectives build it: initial_guess[2:] in mean mode,
\* [initial_guess[2]] + initial_guess[3:]**2 in realizations mode
ObjectiveBeta(initial_guess, predictor_of_mean_flag) ==
    IF Lower(predictor_of_mean_flag) = "mean"
    THEN SubSeq(initial_guess, 3, Len(initial_guess))
    ELSE <<initial_guess[3]>> \o
         [i \in 1..(Len(initial_guess) - 3) |-> Sq(initial_guess[3 + i])]

\* mu = np.dot(column_stack((ones, forecast_predictor)), beta); a row of
\* forecast_predictor is one number in mean mode, the members otherwise
ObjectiveMu(initial_guess, forecast_predictor, predictor_of_mean_flag) ==
    LET beta == ObjectiveBeta(initial_guess, predictor_of_mean_flag)
    IN  [p \in 1..Len(forecast_predictor) |->
            Dot(<<Q(1)>> \o
                (IF Lower(predictor_of_mean_flag) = "mean"
                 THEN <<forecast_predictor[p]>> ELSE forecast_predictor[p]),
                beta)]

\* sigma**2 = initial_guess[0]**2 + initial_guess[1]**2 * forecast_var
ObjectiveSigmaSq(initial_guess, forecast_var) ==
    [p \in 1..Len(forecast_var) |->
        Add(Sq(initial_guess[1]), Mul(Sq(initial_guess[2]), forecast_var[p]))]

\* x / sqrt(s2) kept as its signed square sign(x) * x**2 / s2, which is NaN,
\* +inf, -inf or finite exactly when the quotient is, and orders as it does;
\* the square root of a negative number is NaN
OverSqrt(x, s2) ==
    IF Less(s2, Q(0)) THEN NaN
    ELSE Div(Mul(x, <<Abs(x[1]), x[2]>>), s2)

\* np.min: NaN as soon as one element is NaN, else the least element
RECURSIVE NpMin(_)
NpMin(s) ==
    IF Len(s) = 1 THEN s[1]
    ELSE LET rest == NpMin(Tail(s))
         IN  IF IsNaN(s[1]) \/ IsNaN(rest) THEN NaN
             ELSE IF Less(rest, s[1]) THEN rest ELSE s[1]

\* the summand of one element: NaN (dropped by np.nansum) when the
\* standardised residual is NaN or sigma is 0 (0 * inf); otherwise it is
\* kept by the standardised values it is computed from
Summand(xz, x0, s2) ==
    IF IsNaN(xz) \/ s2 = Q(0) THEN NaN ELSE <<xz, x0, s2>>

\* mutant: np.sum, which drops nothing
NanSumTerms_Sum(terms) == terms

\* the elements np.nansum adds up
NanSumTerms(terms) == SelectSeq(terms, LAMBDA t : ~IsNaN(t))

\* not np.isfinite(np.min(mu/sigma))
GaussianIsBad(ratio) == ~IsFinite(NpMin(ratio))

\* not np.isfinite(np.min(mu/sigma)) or (np.min(mu/sigma) < -3)
TruncatedIsBad(ratio) ==
    ~IsFinite(NpMin(ratio)) \/ Less(NpMin(ratio), Q(-9))

\* mutant: the residual is taken as mu - truth
normal_crps_minimiser_Reversed(initial_guess, forecast_predictor, truth, forecast_var, predictor_of_mean_flag) ==
    LET mu == ObjectiveMu(initial_guess, forecast_predictor,
                          predictor_of_mean_flag)
        s2 == ObjectiveSigmaSq(initial_guess, forecast_var)
        xz == [p \in 1..Len(truth) |-> OverSqrt(Sub(mu[p], truth[p]), s2[p])]
        ratio == [p \in 1..Len(truth) |-> OverSqrt(mu[p], s2[p])]
        terms == [p \in 1..Len(truth) |-> Summand(xz[p], Q(0), s2[p])]
    IN  IF GaussianIsBad(ratio)
        THEN [kind |-> "BAD_VALUE", score |-> BAD_VALUE]
        ELSE [kind |-> "nansum", terms |-> NanSumTerms(terms)]

\* normal_crps_minimiser
normal_crps_minimiser(initial_guess, forecast_predictor, truth, forecast_var, predictor_of_mean_flag) ==
    LET mu == ObjectiveMu(initial_guess, forecast_predictor,
                          predictor_of_mean_flag)
        s2 == ObjectiveSigmaSq(initial_guess, forecast_var)
        xz == [p \in 1..Len(truth) |-> OverSqrt(Sub(truth[p], mu[p]), s2[p])]
        ratio == [p \in 1..Len(truth) |-> OverSqrt(mu[p], s2[p])]
        terms == [p \in 1..Len(truth) |-> Summand(xz[p], Q(0), s2[p])]
    IN  IF GaussianIsBad(ratio)
        THEN [kind |-> "BAD_VALUE", score |-> BAD_VALUE]
        ELSE [kind |-> "nansum", terms |-> NanSumTerms(terms)]

\* truncated_normal_crps_minimiser
truncated_normal_crps_minimiser(initial_guess, forecast_predictor, truth, forecast_var, predictor_of_mean_flag) ==
    LET mu == ObjectiveMu(initial_guess, forecast_predictor,
                          predictor_of_mean_flag)
        s2 == ObjectiveSigmaSq(initial_guess, forecast_var)
        xz == [p \in 1..Len(truth) |-> OverSqrt(Sub(truth[p], mu[p]), s2[p])]
        x0 == [p \in 1..Len(truth) |-> OverSqrt(mu[p], s2[p])]
        terms == [p \in 1..Len(truth) |->
                     IF IsNaN(x0[p]) THEN NaN
                     ELSE Summand(xz[p], x0[p], s2[p])]
    IN  IF TruncatedIsBad(x0)
        THEN [kind |-> "BAD_VALUE", score |-> BAD_VALUE]
        ELSE [kind |-> "nansum", terms |-> NanSumTerms(terms)]

-----------------------------------------------------------------------------
(* Evaluating the objectives on flattened data *)

ObjectiveGuesses ==
    {<<g, d, a, b>> : g \in {Q(0), Q(1)}, d \in {Q(0), Q(1)},
                      a \in {Q(-3), Q(0)}, b \in {Q(-1), Q(0), Q(1)}}

\* one flattened element: <<predictor, truth, variance>>
ObjectiveElements == {Q(1), Q(5), NaN} \X {Q(1), NaN} \X {Q(0), Q(1)}

\* mean mode: every combination of elements on 1..MaxPoints points
ObjectiveMeanInputs ==
    {[initial_guess |-> g,
      forecast_predictor |-> [p \in 1..Len(e) |-> e[p][1]],
      truth |-> [p \in 1..Len(e) |-> e[p][2]],
      forecast_var |-> [p \in 1..Len(e) |-> e[p][3]],
      predictor_of_mean_flag |-> "mean"] :
        g \in ObjectiveGuesses,
        e \in UNION {[1..P -> ObjectiveElements] : P \in 1..MaxPoints}}

\* realizations mode: one grid point, every ensemble size
ObjectiveRealizationInputs ==
    {[initial_guess |-> <<g[1], g[2], g[3]>> \o b,
      forecast_predictor |-> <<x>>,
      truth |-> <<Q(1)>>,
      forecast_var |-> <<v>>,
      predictor_of_mean_flag |-> "realizations"] :
        g \in ObjectiveGuesses, v \in {Q(0), Q(1)},
        b \in UNION {[1..N -> {Q(-1), Q(2)}] : N \in 1..MaxMembers},
        x \in UNION {[1..N -> {Q(1), Q(5)}] : N \in 1..MaxMembers}}

ObjectiveInputs ==
    ObjectiveMeanInputs \cup
    {i \in ObjectiveRealizationInputs :
        Len(i.initial_guess) = 3 + Len(i.forecast_predictor[1])}

InitObjective ==
    /\ pc = "start"
    /\ plugin = NoPlugin
    /\ args \in ObjectiveInputs
    /\ locals = NoValue
    /\ result = NoValue
    /\ raised = "none"
    /\ warned = {}
    /\ minimize_calls = 0

\* self.normal_crps_minimiser(initial_guess, forecast_predictor, truth,
\*     forecast_var, sqrt_pi, predictor_of_mean_flag)
EvaluateNormal ==
    /\ pc = "start"
    /\ result' = normal_crps_minimiser(
                     args.initial_guess, args.forecast_predictor, args.truth,
                     args.forecast_var, args.predictor_of_mean_flag)
    /\ pc' = "gaussian"
    /\ UNCHANGED <<plugin, args, locals, raised, warned, minimize_calls>>

\* self.truncated_normal_crps_minimiser(initial_guess, forecast_predictor,
\*     truth, forecast_var, sqrt_pi, predictor_of_mean_flag)
EvaluateTruncated ==
    /\ pc = "start"
    /\ result' = truncated_normal_crps_minimiser(
                     args.initial_guess, args.forecast_predictor, args.truth,
                     args.forecast_var, args.predictor_of_mean_flag)
    /\ pc' = "truncated gaussian"
    /\ UNCHANGED <<plugin, args, locals, raised, warned, minimize_calls>>

NextObjective == EvaluateNormal \/ EvaluateTruncated

SpecObjective == InitObjective /\ [][NextObjective]_vars

\* mu of element p of the call: alpha + beta * predictor in mean mode,
\* alpha + sum of beta_m^2 * member m in realizations mode
MuAt(p) ==
    LET c == args.initial_guess
        x == args.forecast_predictor[p]
    IN  IF args.predictor_of_mean_flag = "mean"
        THEN Add(c[3], Mul(c[4], x))
        ELSE Add(c[3], SumSeq([m \in 1..Len(x) |->
                                  Mul(Mul(c[3 + m], c[3 + m]), x[m])]))

\* sigma^2 of element p of the call
SigmaSqAt(p) ==
    Add(Mul(args.initial_guess[1], args.initial_guess[1]),
        Mul(Mul(args.initial_guess[2], args.initial_guess[2]),
            args.forecast_var[p]))

\* how mu/sigma of element p stands: "nan", "+inf", "-inf" or "finite"
RatioClass(p) ==
    LET mu == MuAt(p)
        s2 == SigmaSqAt(p)
    IN  IF IsNaN(mu) \/ IsNaN(s2) THEN "nan"
        ELSE IF s2 = Q(0)
        THEN (IF mu = Q(0) THEN "nan"
              ELSE IF Less(mu, Q(0)) THEN "-inf" ELSE "+inf")
        ELSE "finite"

\* mu/sigma of element p is finite and below -3: mu < 0 and mu^2 > 9 sigma^2
RatioBelowMinus3(p) ==
    /\ RatioClass(p) = "finite"
    /\ Less(MuAt(p), Q(0))
    /\ Less(Mul(Q(9), SigmaSqAt(p)), Mul(MuAt(p), MuAt(p)))

Elements == 1..Len(args.truth)

IsSentinel == result.kind = "BAD_VALUE" /\ result.score = 999999

\* C8: the Gaussian objective returns the sentinel score 999999 whenever
\* mu/sigma is NaN, +inf or -inf at any element, also when the other
\* elements are finite.
C8_GaussianSentinel ==
    pc = "gaussian" =>
        ((\E p \in Elements : RatioClass(p) # "finite") => IsSentinel)

\* C9: the truncated-Gaussian objective returns the sentinel score exactly
\* when mu/sigma is non-finite at some element or below -3 at some element.
C9_TruncatedSentinel ==
    pc = "truncated gaussian" =>
        (IsSentinel <=>
            \E p \in Elements :
                RatioClass(p) # "finite" \/ RatioBelowMinus3(p))

\* the call of the Gaussian objective with gamma = 1, delta = 1, alpha = 0,
\* beta = 1 in mean mode on a variance that is 0 everywhere
DeterministicPredictor ==
    /\ pc = "gaussian"
    /\ args.predictor_of_mean_flag = "mean"
    /\ args.initial_guess = <<Q(1), Q(1), Q(0), Q(1)>>
    /\ \A p \in Elements : args.forecast_var[p] = Q(0)

\* z / sigma for sigma = 1 as the objective keeps it: sign(z) * z^2
Standardised(z) == Mul(z, <<Abs(z[1]), z[2]>>)

\* C24: with gamma = 1, delta = 1, alpha = 0, beta = 1 in mean mode and a
\* forecast variance of 0 everywhere, sigma is 1 at every element and, for
\* finite truth and predictor, the Gaussian objective is the sum over all
\* elements of the summand sigma * (z (2 Phi(z) - 1) + 2 phi(z) - 1/sqrt(pi))
\* taken at sigma = 1 and z = truth - predictor: no element is dropped and
\* the sentinel is not returned.
C24_ResidualCrps ==
    DeterministicPredictor =>
        /\ \A p \in Elements : SigmaSqAt(p) = Q(1)
        /\ (\A p \in Elements : /\ IsFinite(args.truth[p])
                                 /\ IsFinite(args.forecast_predictor[p])) =>
               /\ result.kind = "nansum"
               /\ Len(result.terms) = Len(args.truth)
               /\ \A p \in Elements :
                      result.terms[p] =
                          <<Standardised(Sub(args.truth[p],
                                             args.forecast_predictor[p])),
                            Q(0), Q(1)>>

\* truth (1, 1) against the predictor (1, 5): z is 0 and -4
C24_Witness ==
    /\ DeterministicPredictor
    /\ args.truth = <<Q(1), Q(1)>>
    /\ args.forecast_predictor = <<Q(1), Q(5)>>
    /\ result.kind = "nansum"
    /\ result.terms = <<<<Q(0), Q(0), Q(1)>>, <<Q(-16), Q(0), Q(1)>>>>

-----------------------------------------------------------------------------
(* EstimateCoefficientsForEnsembleCalibration.compute_initial_guess *)

Mean(x) == Div(SumSeq(x), Q(Len(x)))

\* scipy.stats.linregress(x, y): <<gradient, intercept>>, with
\* gradient = cov(x, y) / var(x) (0/0 = NaN when all x are equal)
linregress(x, y) ==
    LET xmean == Mean(x)
        ymean == Mean(y)
        ssxm == Mean([i \in 1..Len(x) |-> Sq(Sub(x[i], xmean))])
        ssxym == Mean([i \in 1..Len(x) |->
                          Mul(Sub(x[i], xmean), Sub(y[i], ymean))])
        gradient == Div(ssxym, ssxm)
    IN  <<gradient, Sub(ymean, Mul(gradient, xmean))>>

\* mutant: a point counts as soon as one of truth and predictor is not NaN
CombinedNotNanMean_Any(truth_data, forecast_data) ==
    [p \in 1..Len(truth_data) |->
        ~IsNaN(truth_data[p]) \/ ~IsNaN(forecast_data[p])]

\* combined_not_nan in mean mode: np.all(row_stack([~isnan(truth),
\* ~isnan(forecast)]), axis=0)
CombinedNotNanMean(truth_data, forecast_data) ==
    [p \in 1..Len(truth_data) |->
        ~IsNaN(truth_data[p]) /\ ~IsNaN(forecast_data[p])]

\* combined_not_nan in realizations mode (forecast_data[m][p])
CombinedNotNanRealizations(truth_data, forecast_data) ==
    [p \in 1..Len(truth_data) |->
        /\ ~IsNaN(truth_data[p])
        /\ \A m \in 1..Len(forecast_data) : ~IsNaN(forecast_data[m][p])]

\* data[mask]: the elements of data where mask holds, in order
RECURSIVE Masked(_, _)
Masked(data, mask) ==
    IF data = <<>> THEN <<>>
    ELSE (IF mask[1] THEN <<data[1]>> ELSE <<>>) \o
         Masked(Tail(data), Tail(mask))

\* the mean-mode regression: [1, 1, intercept, gradient]
RegressionGuessMean(truth_data, forecast_data) ==
    LET combined_not_nan == CombinedNotNanMean(truth_data, forecast_data)
        fit == IF ~\E p \in 1..Len(combined_not_nan) : combined_not_nan[p]
               THEN <<NaN, NaN>>
               ELSE linregress(Masked(forecast_data, combined_not_nan),
                               Masked(truth_data, combined_not_nan))
    IN  <<Q(1), Q(1), fit[2], fit[1]>>

\* statsmodels add_constant(..., has_constant='skip'): the number of columns
\* of the design matrix; no constant is added when a member is constant and
\* non-zero over the valid points
DesignColumns(truth_data, forecast_data) ==
    LET mask == CombinedNotNanRealizations(truth_data, forecast_data)
        cols == [m \in 1..Len(forecast_data) |-> Masked(forecast_data[m], mask)]
        constant(c) == /\ c # <<>>
                       /\ \A i \in 1..Len(c) : c[i] = c[1]
                       /\ c[1] # Q(0)
    IN  IF \E m \in 1..Len(cols) : constant(cols[m])
        THEN Len(cols) ELSE Len(cols) + 1

\* the parameter vectors an OLS fit with the given number of columns may
\* return (statsmodels computes them; they are not computed here)
OLSParams(columns) ==
    {[i \in 1..columns |-> Q(1)], [i \in 1..columns |-> Q(i)],
     [i \in 1..columns |-> NaN]}

\* mutant: one beta whatever the number of realizations
DefaultGuessRealizations_OneBeta(no_of_realizations) ==
    <<Q(1), Q(1), Q(0), Q(1)>>

\* [1, 1, 0] + np.repeat(1, no_of_realizations).tolist()
DefaultGuessRealizations(no_of_realizations) ==
    <<Q(1), Q(1), Q(0)>> \o [i \in 1..no_of_realizations |-> Q(1)]

\* compute_initial_guess: the error raised ("none" if it returns) and the
\* vector returned; params is est.params of the OLS fit, used only by the
\* realizations regression
compute_initial_guess(self, truth, forecast_predictor, predictor_of_mean_flag, estimate_coefficients_from_linear_model_flag, no_of_realizations, params) ==
    LET mode == Lower(predictor_of_mean_flag)
        default == DefaultGuessRealizations(no_of_realizations)
        mask == CombinedNotNanRealizations(truth.data, forecast_predictor.data)
    IN  IF mode = "mean" /\ ~estimate_coefficients_from_linear_model_flag
        THEN [raised |-> "none", value |-> <<Q(1), Q(1), Q(0), Q(1)>>]
        ELSE IF mode = "realizations" /\
                ~estimate_coefficients_from_linear_model_flag
        THEN [raised |-> "none", value |-> default]
        ELSE IF ~estimate_coefficients_from_linear_model_flag
        THEN [raised |-> "UnboundLocalError", value |-> NoValue]
        ELSE IF mode = "mean"
        THEN [raised |-> "none",
              value |-> RegressionGuessMean(truth.data, forecast_predictor.data)]
        ELSE IF mode = "realizations"
        THEN IF self.statsmodels_found
             THEN IF ~\E p \in 1..Len(mask) : mask[p]
                  THEN [raised |-> "ValueError", value |-> NoValue]
                  ELSE [raised |-> "none",
                        value |-> <<Q(1), Q(1), params[1]>> \o Tail(params)]
             ELSE [raised |-> "none", value |-> default]
        ELSE [raised |-> "UnboundLocalError", value |-> NoValue]

-----------------------------------------------------------------------------
(* Calling compute_initial_guess *)

\* a truth cube or a collapsed (mean, variance) cube: data[p] over the grid
Field(data, units) ==
    [realization |-> <<>>, data |-> data, units |-> units,
     forecast_period |-> {}, time |-> {}, forecast_reference_time |-> {}]

\* mean mode: truth and ensemble mean over up to MaxPoints + 1 grid points
GuessMeanInputs ==
    {[truth |-> Field(t, "K"), forecast_predictor |-> Field(x, "K"),
      predictor_of_mean_flag |-> "mean",
      estimate_coefficients_from_linear_model_flag |-> lm,
      no_of_realizations |-> 0] :
        lm \in BOOLEAN,
        t \in UNION {[1..P -> {Q(1), Q(3), NaN}] : P \in 1..(MaxPoints + 1)},
        x \in UNION {[1..P -> {Q(0), Q(2), NaN}] : P \in 1..(MaxPoints + 1)}}

\* rows of a member over P grid points for the realizations regression
GuessRows(P) ==
    {[p \in 1..P |-> Q(2)], [p \in 1..P |-> Q(p)],
     [p \in 1..P |-> IF p = 1 THEN NaN ELSE Q(p)]}

GuessRealizationInputs ==
    {[truth |-> Field(t, "K"),
      forecast_predictor |->
          Cube(Realizations(Len(d)), d, "K", {}, {}, {}),
      predictor_of_mean_flag |-> flag,
      estimate_coefficients_from_linear_model_flag |-> lm,
      no_of_realizations |-> Len(d)] :
        lm \in BOOLEAN, flag \in {"realizations", "REALIZATIONS"},
        t \in UNION {[1..P -> {Q(1), NaN}] : P \in 1..MaxPoints},
        d \in UNION {[1..N -> GuessRows(P)] :
                        N \in 1..MaxMembers, P \in 1..MaxPoints}}

GuessInputs ==
    {i \in GuessMeanInputs :
        Len(i.truth.data) = Len(i.forecast_predictor.data)} \cup
    {i \in GuessRealizationInputs :
        Len(i.truth.data) = Len(i.forecast_predictor.data[1])}

InitGuess ==
    /\ pc = "start"
    /\ \E statsmodels_found \in BOOLEAN, flag \in {"mean", "realizations"} :
           /\ plugin = EstimateInit("gaussian", 10, "", flag, statsmodels_found)
           /\ warned = EstimateInitWarns(flag, statsmodels_found)
    /\ args \in GuessInputs
    /\ locals = NoValue
    /\ result = NoValue
    /\ raised = "none"
    /\ minimize_calls = 0

\* the number of columns of the OLS design matrix of a call, 1 when the
\* call makes no OLS fit
ColumnsOf(a) ==
    IF /\ Lower(a.predictor_of_mean_flag) = "realizations"
       /\ a.estimate_coefficients_from_linear_model_flag
    THEN DesignColumns(a.truth.data, a.forecast_predictor.data)
    ELSE 1

\* self.compute_initial_guess(truth, forecast_predictor,
\*     predictor_of_mean_flag, estimate_coefficients_from_linear_model_flag,
\*     no_of_realizations)
ComputeInitialGuess ==
    /\ pc = "start"
    /\ \E params \in OLSParams(ColumnsOf(args)) :
        LET r == compute_initial_guess(
                     plugin, args.truth, args.forecast_predictor,
                     args.predictor_of_mean_flag,
                     args.estimate_coefficients_from_linear_model_flag,
                     args.no_of_realizations, params)
        IN  /\ raised' = r.raised
            /\ result' = r.value
    /\ pc' = "guessed"
    /\ UNCHANGED <<plugin, args, locals, warned, minimize_calls>>

NextGuess == ComputeInitialGuess

SpecGuess == InitGuess /\ [][NextGuess]_vars

\* the grid points of the call where both truth and predictor are not NaN
BothPresent ==
    {p \in 1..Len(args.truth.data) :
        /\ args.truth.data[p] # NaN
        /\ args.forecast_predictor.data[p] # NaN}

SumOver(S, f(_)) ==
    LET RECURSIVE Go(_)
        Go(T) == IF T = {} THEN Q(0)
                 ELSE LET p == CHOOSE q \in T : TRUE
                      IN  Add(f(p), Go(T \ {p}))
    IN  Go(S)

\* intercept and slope solve the normal equations of the least-squares fit
\* of truth on the predictor over the points S
IsLeastSquaresFit(intercept, slope, S) ==
    LET residual(p) ==
            Sub(args.truth.data[p],
                Add(intercept, Mul(slope, args.forecast_predictor.data[p])))
        weighted(p) == Mul(args.forecast_predictor.data[p], residual(p))
    IN  /\ SumOver(S, residual) = Q(0)
        /\ SumOver(S, weighted) = Q(0)

RegressionInMeanMode ==
    /\ pc = "guessed"
    /\ Lower(args.predictor_of_mean_flag) = "mean"
    /\ args.estimate_coefficients_from_linear_model_flag

Members == Len(args.forecast_predictor.data)

\* C19: the vector that compute_initial_guess returns has length 4 in mean
\* mode and 3 + N in realizations mode (N the number of ensemble members),
\* on every path.
C19_GuessLength ==
    (pc = "guessed" /\ raised = "none") =>
        Len(result) =
            IF Lower(args.predictor_of_mean_flag) = "mean" THEN 4
            ELSE 3 + Members

\* the length is as C19 states on all paths but the OLS regression
C19_LengthWithoutOLS ==
    (/\ pc = "guessed"
     /\ raised = "none"
     /\ ~(/\ Lower(args.predictor_of_mean_flag) = "realizations"
          /\ args.estimate_coefficients_from_linear_model_flag
          /\ plugin.statsmodels_found)) =>
        Len(result) =
            IF Lower(args.predictor_of_mean_flag) = "mean" THEN 4
            ELSE 3 + Members

\* C20: when regression is not requested compute_initial_guess returns
\* [1, 1, 0, 1] in mean mode and [1, 1, 0] followed by N ones in
\* realizations mode, whatever the truth and the predictor hold.
C20_DefaultGuess ==
    (pc = "guessed" /\ ~args.estimate_coefficients_from_linear_model_flag) =>
        /\ raised = "none"
        /\ IF Lower(args.predictor_of_mean_flag) = "mean"
           THEN result = <<Q(1), Q(1), Q(0), Q(1)>>
           ELSE /\ Len(result) = 3 + Members
                /\ SubSeq(result, 1, 3) = <<Q(1), Q(1), Q(0)>>
                /\ \A i \in 4..Len(result) : result[i] = Q(1)

\* two members and a truth that is NaN everywhere: [1, 1, 0, 1, 1]
C20_Witness ==
    /\ pc = "guessed"
    /\ ~args.estimate_coefficients_from_linear_model_flag
    /\ Lower(args.predictor_of_mean_flag) = "realizations"
    /\ Members = 2
    /\ \A p \in 1..Len(args.truth.data) : args.truth.data[p] = NaN
    /\ result = <<Q(1), Q(1), Q(0), Q(1), Q(1)>>

\* regression requested in realizations mode of a plugin that found no
\* statsmodels
FallbackRequested ==
    /\ pc = "guessed"
    /\ ~plugin.statsmodels_found
    /\ args.estimate_coefficients_from_linear_model_flag
    /\ Lower(args.predictor_of_mean_flag) = "realizations"

\* C21: when statsmodels is unavailable and regression is requested in
\* realizations mode, compute_initial_guess returns [1, 1, 0] followed by N
\* ones without raising, and a warning has been issued before that value is
\* used; the mean-mode regression is the same with and without statsmodels.
C21_FallbackWarned ==
    /\ FallbackRequested =>
           /\ raised = "none"
           /\ result = DefaultGuessRealizations(Members)
           /\ "ImportWarning" \in warned
    /\ RegressionInMeanMode =>
           /\ raised = "none"
           /\ result = RegressionGuessMean(args.truth.data,
                                           args.forecast_predictor.data)

\* the fallback value is returned whatever the constructor was given, and
\* the warning has been issued when the plugin was constructed for the
\* realizations
C21_WarnedWhenConstructedForRealizations ==
    FallbackRequested =>
        /\ raised = "none"
        /\ result = DefaultGuessRealizations(Members)
        /\ (Lower(plugin.predictor_of_mean_flag) = "realizations"
               => "ImportWarning" \in warned)

-----------------------------------------------------------------------------
(* NaN in the data of the objectives (calls of SpecObjective) *)

\* an objective has been evaluated with the ensemble mean as predictor
EvaluatedOnMean ==
    /\ pc \in {"gaussian", "truncated gaussian"}
    /\ args.predictor_of_mean_flag = "mean"

\* element p has no truth value but a finite predictor and variance
TruthMissing(p) ==
    /\ IsNaN(args.truth[p])
    /\ IsFinite(args.forecast_predictor[p])
    /\ IsFinite(args.forecast_var[p])

\* the elements that remain when those without truth value are left out
Remaining == [p \in Elements |-> ~TruthMissing(p)]

\* the score of the objective that was evaluated, over the remaining elements
ScoreOverRemaining ==
    IF pc = "gaussian"
    THEN normal_crps_minimiser(
             args.initial_guess, Masked(args.forecast_predictor, Remaining),
             Masked(args.truth, Remaining), Masked(args.forecast_var, Remaining),
             args.predictor_of_mean_flag)
    ELSE truncated_normal_crps_minimiser(
             args.initial_guess, Masked(args.forecast_predictor, Remaining),
             Masked(args.truth, Remaining), Masked(args.forecast_var, Remaining),
             args.predictor_of_mean_flag)

\* some elements have no truth value and some remain
SomeTruthMissing ==
    /\ \E p \in Elements : TruthMissing(p)
    /\ \E p \in Elements : ~TruthMissing(p)

\* C25 as stated: in both objectives an element whose truth is NaN (finite
\* predictor and variance) contributes nothing and does not trigger the
\* sentinel, so that the score is the score over the remaining elements; a
\* NaN predictor element forces the sentinel for every coefficient vector.
C25_NanTruthIgnored ==
    EvaluatedOnMean =>
        /\ SomeTruthMissing => result = ScoreOverRemaining
        /\ (\E p \in Elements : IsNaN(args.forecast_predictor[p])) => IsSentinel

\* C25 as amended: an element whose truth is NaN adds nothing to the sum,
\* and the score is the score over the remaining elements provided that
\* score is not the sentinel and mu/sigma of the elements without truth is
\* finite (and not below -3 in the truncated objective): mu/sigma of every
\* element takes part in the sentinel test, with or without truth. A NaN
\* predictor element forces the sentinel for every coefficient vector.
C25_NanTruthAddsNothing ==
    EvaluatedOnMean =>
        /\ (/\ SomeTruthMissing
            /\ ScoreOverRemaining.kind = "nansum"
            /\ \A p \in Elements : TruthMissing(p) =>
                   /\ RatioClass(p) = "finite"
                   /\ pc = "truncated gaussian" => ~RatioBelowMinus3(p))
           => result = ScoreOverRemaining
        /\ result.kind = "nansum" =>
               Len(result.terms) <=
                   Cardinality({p \in Elements : ~IsNaN(args.truth[p])})
        /\ (\E p \in Elements : IsNaN(args.forecast_predictor[p])) => IsSentinel

\* truth (NaN, 1) on the predictor (5, 1) with gamma = 1, delta = 0,
\* alpha = 0, beta = 1: the score is the one summand of the second element
C25_Witness ==
    /\ pc = "truncated gaussian"
    /\ args.predictor_of_mean_flag = "mean"
    /\ args.initial_guess = <<Q(1), Q(0), Q(0), Q(1)>>
    /\ args.truth = <<NaN, Q(1)>>
    /\ args.forecast_predictor = <<Q(5), Q(1)>>
    /\ result.kind = "nansum"
    /\ result.terms = <<<<Q(0), Q(1), Q(1)>>>>
    /\ result = ScoreOverRemaining

\* a NaN predictor beside a finite element: the sentinel
C25_WitnessNanPredictor ==
    /\ pc = "gaussian"
    /\ args.predictor_of_mean_flag = "mean"
    /\ args.initial_guess = <<Q(1), Q(1), Q(0), Q(0)>>
    /\ args.forecast_predictor = <<NaN, Q(1)>>
    /\ args.truth = <<Q(1), Q(1)>>
    /\ IsSentinel

-----------------------------------------------------------------------------
(* The objectives against the application (calls of SpecApply) *)

\* the predictor data as crps_minimiser_wrapper hands it to the objectives
\* for the forecast of the plugin: the flattened ensemble mean, or the
\* realizations as rows of members
PredictorDataOf(self, forecast) ==
    IF Lower(self.predictor_of_mean_flag) = "mean"
    THEN CollapsedMean(forecast).data
    ELSE convert_cube_data_to_2d(forecast)

\* C26: for the same coefficient vector, predictor values and ensemble
\* variance, mu of the objectives is the predicted mean that _apply_params
\* writes (alpha + beta * x in mean mode, alpha + the sum of beta_m^2 * x_m
\* in realizations mode) and sigma^2 of the objectives is the calibrated
\* variance gamma^2 + delta^2 * variance.
C26_SameModel ==
    pc = "applied" =>
        /\ result.predictor.data =
               ObjectiveMu(plugin.coefficients_cube.data,
                           PredictorDataOf(plugin, args.current_forecast),
                           plugin.predictor_of_mean_flag)
        /\ result.variance.data =
               ObjectiveSigmaSq(plugin.coefficients_cube.data,
                                CollapsedVariance(args.current_forecast).data)
        /\ \A p \in 1..NPoints(args.current_forecast) :
               result.variance.data[p] =
                   Add(Sq(plugin.coefficients_cube.data[1]),
                       Mul(Sq(plugin.coefficients_cube.data[2]),
                           CollapsedVariance(args.current_forecast).data[p]))

\* two members (2 and -1 at the one grid point), gamma = -1, delta = 2,
\* alpha = 3, betas 1 and -2: mean 3 + 1 * 2 + 4 * (-1) = 1 and variance
\* 1 + 4 * 9/2 = 19
C26_Witness ==
    /\ pc = "applied"
    /\ Lower(plugin.predictor_of_mean_flag) = "realizations"
    /\ args.current_forecast.data = <<<<Q(2)>>, <<Q(-1)>>>>
    /\ plugin.coefficients_cube.data = <<Q(-1), Q(2), Q(3), Q(1), Q(-2)>>
    /\ result.predictor.data = <<Q(1)>>
    /\ result.variance.data = <<Q(19)>>
    /\ ObjectiveMu(plugin.coefficients_cube.data,
                   PredictorDataOf(plugin, args.current_forecast),
                   plugin.predictor_of_mean_flag) = <<Q(1)>>

-----------------------------------------------------------------------------
(* ContinuousRankedProbabilityScoreMinimisers.crps_minimiser_wrapper *)

AbsQ(a) == <<Abs(a[1]), a[2]>>

\* mutant: the sign of the change is kept
PercentageChangeWarns_NoAbs(last, previous) ==
    \E i \in 1..Len(last) :
        Less(Q(TOLERATED_PERCENTAGE_CHANGE),
             Mul(Div(Sub(last[i], previous[i]), previous[i]), Q(100)))

\* calculate_percentage_change_in_last_iteration: whether the warning is
\* issued for the last two vectors of allvecs
PercentageChangeWarns(last, previous) ==
    \E i \in 1..Len(last) :
        Less(Q(TOLERATED_PERCENTAGE_CHANGE),
             Mul(AbsQ(Div(Sub(last[i], previous[i]), previous[i])), Q(100)))

\* what scipy's Nelder-Mead minimize may report, named by how it relates to
\* the start vector: whether the final vector x = allvecs[-1] has moved
\* from it, what the vector before it (allvecs[-2]) is (x itself, x scaled
\* by 20/21 so that the change is 5 percent, the other of the start vector
\* and the moved one, or zeros), and the number of iterations made; the
\* search itself is not computed here
MinimizeChoices ==
    [moved : BOOLEAN, previous : {"x", "near", "other", "zero"},
     nit : {1, MAX_ITERATIONS}]

\* mutant: without the maxiter option Nelder-Mead stops after 200 iterations
\* per coefficient
Minimize_DefaultMaxiter(x0, choice) ==
    LET moved == [i \in 1..Len(x0) |-> Add(x0[i], Q(1))]
        zero == [i \in 1..Len(x0) |-> Q(0)]
        x == IF choice.moved THEN moved ELSE x0
        near == [i \in 1..Len(x0) |-> Mul(x[i], <<20, 21>>)]
    IN  [x |-> x,
         previous |-> IF choice.previous = "x" THEN x
                      ELSE IF choice.previous = "near" THEN near
                      ELSE IF choice.previous = "zero" THEN zero
                      ELSE IF choice.moved THEN x0 ELSE moved,
         success |-> choice.nit < MAX_ITERATIONS,
         nit |-> IF choice.nit < MAX_ITERATIONS THEN choice.nit
                 ELSE Len(x0) * 200]

\* the OptimizeResult of minimize for the start vector x0; it has not
\* converged when the maxiter iterations are used up
Minimize(x0, choice) ==
    LET moved == [i \in 1..Len(x0) |-> Add(x0[i], Q(1))]
        zero == [i \in 1..Len(x0) |-> Q(0)]
        x == IF choice.moved THEN moved ELSE x0
        near == [i \in 1..Len(x0) |-> Mul(x[i], <<20, 21>>)]
    IN  [x |-> x,
         previous |-> IF choice.previous = "x" THEN x
                      ELSE IF choice.previous = "near" THEN near
                      ELSE IF choice.previous = "zero" THEN zero
                      ELSE IF choice.moved THEN x0 ELSE moved,
         success |-> choice.nit < MAX_ITERATIONS,
         nit |-> choice.nit]

\* mutant: the report of minimize is not looked at
NotConvergedWarns_Never(outcome) == FALSE

\* the warning issued when optimised_coeffs.success is False
NotConvergedWarns(outcome) == ~outcome.success

\* mutant: the predictor flag is checked before the distribution is looked up
WrapperRaises_FlagFirst(predictor_of_mean_flag, distribution) ==
    IF ~check_predictor_of_mean_flag(predictor_of_mean_flag)
    THEN "InvalidModeError"
    ELSE IF distribution \notin minimisation_dict
    THEN "UnsupportedDistributionError"
    ELSE "none"

\* the checks made before the data is prepared: the lookup of distribution
\* in self.minimisation_dict (KeyError), then check_predictor_of_mean_flag
WrapperRaises(predictor_of_mean_flag, distribution) ==
    IF distribution \notin minimisation_dict
    THEN "UnsupportedDistributionError"
    ELSE IF ~check_predictor_of_mean_flag(predictor_of_mean_flag)
    THEN "InvalidModeError"
    ELSE "none"

\* the length of the coefficient vector for which np.dot(all_data, beta) in
\* the objective is defined: all_data has one column of ones and one column
\* per predictor
ObjectiveLength(forecast_predictor, predictor_of_mean_flag) ==
    IF Lower(predictor_of_mean_flag) = "mean" THEN 4
    ELSE 3 + Len(forecast_predictor.data)

\* crps_minimiser_wrapper: the error raised ("none" if it returns), the
\* vector returned, the warnings issued and the number of calls of minimize;
\* minimize fails in its first evaluation of the objective when the vector
\* does not fit the predictor
crps_minimiser_wrapper(initial_guess, forecast_predictor, truth, forecast_var, predictor_of_mean_flag, distribution, outcome) ==
    LET e == WrapperRaises(predictor_of_mean_flag, distribution)
    IN  IF e # "none"
        THEN [raised |-> e, value |-> NoValue, warned |-> {}, calls |-> 0]
        ELSE IF Len(initial_guess) #
                ObjectiveLength(forecast_predictor, predictor_of_mean_flag)
        THEN [raised |-> "ValueError", value |-> NoValue, warned |-> {},
              calls |-> 1]
        ELSE [raised |-> "none",
              value |-> outcome.x,
              warned |->
                  (IF NotConvergedWarns(outcome) THEN {"NotConverged"} ELSE {}) \cup
                  (IF PercentageChangeWarns(outcome.x, outcome.previous)
                   THEN {"PercentageChange"} ELSE {}),
              calls |-> 1]

-----------------------------------------------------------------------------
(* Calling crps_minimiser_wrapper *)

\* calls with the ensemble mean as predictor and calls with the realizations
\* as predictor, each also with an unsupported flag
WrapperInputs ==
    {[initial_guess |-> g,
      forecast_predictor |-> Field(<<Q(1), Q(2)>>, "K"),
      truth |-> Field(<<Q(1), Q(3)>>, "K"),
      forecast_var |-> Field(<<Q(0), Q(1)>>, "K"),
      predictor_of_mean_flag |-> flag,
      distribution |-> distribution] :
        g \in {<<Q(1), Q(1), Q(0), Q(1)>>, <<Q(1), Q(1), Q(-1), Q(2)>>},
        flag \in {"mean", "Mean", "median"},
        distribution \in Distributions} \cup
    {[initial_guess |-> <<Q(1), Q(1), Q(0)>> \o [m \in 1..N |-> Q(1)],
      forecast_predictor |->
          Cube(Realizations(N), [m \in 1..N |-> <<Q(m), Q(2)>>], "K",
               {}, {}, {}),
      truth |-> Field(<<Q(1), Q(3)>>, "K"),
      forecast_var |-> Field(<<Q(0), Q(1)>>, "K"),
      predictor_of_mean_flag |-> flag,
      distribution |-> distribution] :
        N \in 1..MaxMembers,
        flag \in {"realizations", "REALIZATIONS", "median"},
        distribution \in Distributions}

InitWrapper ==
    /\ pc = "start"
    /\ plugin = [class |-> "Minimisers", minimisation_dict |-> minimisation_dict]
    /\ args \in WrapperInputs
    /\ locals = NoValue
    /\ result = NoValue
    /\ raised = "none"
    /\ warned = {}
    /\ minimize_calls = 0

\* self.crps_minimiser_wrapper(initial_guess, forecast_predictor, truth,
\*     forecast_var, predictor_of_mean_flag, distribution)
CrpsMinimiserWrapper ==
    /\ pc = "start"
    /\ \E choice \in MinimizeChoices :
        \E outcome \in {Minimize(args.initial_guess, choice)} :
        \E r \in {crps_minimiser_wrapper(
                     args.initial_guess, args.forecast_predictor, args.truth,
                     args.forecast_var, args.predictor_of_mean_flag,
                     args.distribution, outcome)} :
            /\ raised' = r.raised
            /\ result' = r.value
            /\ warned' = r.warned
            /\ minimize_calls' = minimize_calls + r.calls
            /\ locals' = IF r.calls = 0 THEN NoValue
                         ELSE [optimised_coeffs |-> outcome]
    /\ pc' = "minimised"
    /\ UNCHANGED <<plugin, args>>

NextWrapper == CrpsMinimiserWrapper

SpecWrapper == InitWrapper /\ [][NextWrapper]_vars

ModeSupported == args.predictor_of_mean_flag \in {"mean", "Mean", "realizations", "REALIZATIONS"}

DistributionRegistered == args.distribution \in {"gaussian", "truncated gaussian"}

\* C10 as stated: the wrapper rejects an unsupported mode and an unregistered
\* distribution before the minimizer runs, and the mode is validated first:
\* when both are invalid the error is the invalid-mode error.
C10_ModeFirst ==
    pc = "minimised" =>
        /\ ~ModeSupported => (raised = "InvalidModeError" /\ minimize_calls = 0)
        /\ (ModeSupported /\ ~DistributionRegistered) =>
               (raised = "UnsupportedDistributionError" /\ minimize_calls = 0)

\* C10 as amended: the wrapper rejects an unregistered distribution and an
\* unsupported mode before the minimizer runs, and the distribution is looked
\* up first: when both are invalid the error is the unsupported-distribution
\* error; with both valid the minimizer is called once.
C10_DistributionFirst ==
    pc = "minimised" =>
        /\ ~DistributionRegistered =>
               /\ raised = "UnsupportedDistributionError"
               /\ minimize_calls = 0
               /\ result = NoValue
        /\ (DistributionRegistered /\ ~ModeSupported) =>
               /\ raised = "InvalidModeError"
               /\ minimize_calls = 0
               /\ result = NoValue
        /\ (DistributionRegistered /\ ModeSupported) =>
               (raised = "none" /\ minimize_calls = 1)

\* both invalid: the unsupported-distribution error is the one reported
C10_Witness ==
    /\ pc = "minimised"
    /\ args.predictor_of_mean_flag = "median"
    /\ args.distribution = "poisson"
    /\ raised = "UnsupportedDistributionError"
    /\ minimize_calls = 0

\* the report of minimize in a call that reached minimize
Reported == locals.optimised_coeffs

MinimizeReached == pc = "minimised" /\ minimize_calls = 1

\* C12: whatever minimize reports (converged or not, last change above or
\* below 5 percent) crps_minimiser_wrapper raises nothing and returns the
\* final vector x; it issues no other warnings than the two diagnostics, and
\* the non-convergence warning exactly when minimize reports no success.
C12_DiagnosticsAdvisory ==
    MinimizeReached =>
        /\ raised = "none"
        /\ result = Reported.x
        /\ warned \subseteq {"NotConverged", "PercentageChange"}
        /\ ("NotConverged" \in warned) <=> ~Reported.success

\* both warnings at once, and the moved vector is still returned
C12_Witness ==
    /\ MinimizeReached
    /\ warned = {"NotConverged", "PercentageChange"}
    /\ ~Reported.success
    /\ result = Reported.x
    /\ result # args.initial_guess

\* 100 * |last - previous| > 5 * |previous| for some coefficient: the
\* percentage change is strictly above 5 (a change from 0 to another value
\* counts, no change at 0 does not)
ChangeAboveTolerance ==
    \E i \in 1..Len(Reported.x) :
        Less(Mul(Q(5), AbsQ(Reported.previous[i])),
             Mul(Q(100), AbsQ(Sub(Reported.x[i], Reported.previous[i]))))

\* C13: the percentage-change warning is issued if and only if for at least
\* one coefficient |last - previous| / |previous| * 100 is strictly greater
\* than 5 for the last two vectors; none is issued when the two vectors are
\* the same, also with a coefficient that is 0 in both.
C13_PercentageChange ==
    MinimizeReached =>
        /\ ("PercentageChange" \in warned) <=> ChangeAboveTolerance
        /\ Reported.x = Reported.previous => "PercentageChange" \notin warned

\* the last two vectors are the same and their third coefficient is 0
C13_Witness ==
    /\ MinimizeReached
    /\ Reported.x = Reported.previous
    /\ Reported.x[3] = Q(0)
    /\ "PercentageChange" \notin warned

\* a change of exactly 5 percent in every coefficient: no warning
C13_WitnessAtTolerance ==
    /\ MinimizeReached
    /\ Reported.x = <<Q(1), Q(1), Q(-1), Q(2)>>
    /\ Reported.previous[1] = <<20, 21>>
    /\ "PercentageChange" \notin warned

\* the call runs from its start to its return
WrapperReturns == pc = "start" /\ pc' = "minimised"

\* the call is synchronous: once started it is not left undone for ever
SpecWrapperFair == SpecWrapper /\ WF_pc(WrapperReturns)

C22_WitnessConverged ==
    /\ MinimizeReached
    /\ Reported.nit < MAX_ITERATIONS
    /\ Reported.success
    /\ Len(result) = Len(args.initial_guess)

-----------------------------------------------------------------------------
(* EstimateCoefficientsForEnsembleCalibration.estimate_coefficients_for_ngr *)

\* cube.convert_units(unit) between "mm" and "cm": the data is rescaled and
\* the unit replaced, in place
ConvertUnits(cube, unit) ==
    LET factor == IF cube.units = unit THEN Q(1)
                  ELSE IF unit = "cm" THEN <<1, 10>> ELSE Q(10)
        scale(row) == [p \in 1..Len(row) |-> Mul(row[p], factor)]
    IN  [cube EXCEPT
            !.units = unit,
            !.data = IF cube.realization = <<>> THEN scale(cube.data)
                     ELSE [m \in 1..Len(cube.data) |-> scale(cube.data[m])]]

\* the cubes after lines 646-648: converted in place when desired_units is set
AfterConversion(self, cube) ==
    IF self.desired_units # "" THEN ConvertUnits(cube, self.desired_units)
    ELSE cube

\* the forecast predictor: the ensemble mean or the realizations
ForecastPredictor(self, historic_forecast) ==
    IF Lower(self.predictor_of_mean_flag) = "mean"
    THEN CollapsedMean(historic_forecast)
    ELSE historic_forecast

\* mutant: the minimiser is run whatever the initial guess holds
SkipMinimiser_Never(initial_guess) == FALSE

\* nan_in_initial_guess: np.any(np.isnan(initial_guess))
SkipMinimiser(initial_guess) == HasNaN(initial_guess)

\* what a call reports: the error raised ("none" if it returns), the
\* coefficients cube returned, the warnings issued, the number of calls of
\* crps_minimiser_wrapper and of minimize, the initial guess, and the two
\* cubes as the call leaves them
Estimated(raised_, value, warned_, wrapper_calls, calls, initial_guess, historic_forecast, truth) ==
    [raised |-> raised_, value |-> value, warned |-> warned_,
     wrapper_calls |-> wrapper_calls, calls |-> calls,
     initial_guess |-> initial_guess,
     historic_forecast |-> historic_forecast, truth |-> truth]

\* lines 677-695: the minimiser is skipped for a guess with NaN, and the
\* coefficients are packaged
EstimateFromGuess(self, historic_forecast, truth, forecast_predictor, initial_guess, outcome) ==
    LET skipped == SkipMinimiser(initial_guess)
        wrapper_calls == IF skipped THEN 0 ELSE 1
        finish(used) ==
            IF used.raised # "none"
            THEN Estimated(used.raised, NoValue, {}, wrapper_calls,
                           used.calls, initial_guess, historic_forecast, truth)
            ELSE LET packaged == create_coefficients_cube(
                                     self, used.value, historic_forecast)
                 IN  Estimated(packaged.raised,
                               IF packaged.raised = "none"
                               THEN packaged.cube ELSE NoValue,
                               used.warned, wrapper_calls, used.calls,
                               initial_guess, historic_forecast, truth)
    IN  The({finish(used) : used \in
            {IF skipped
             THEN [raised |-> "none", value |-> initial_guess,
                   warned |-> {}, calls |-> 0]
             ELSE crps_minimiser_wrapper(
                      initial_guess, forecast_predictor, truth,
                      CollapsedVariance(historic_forecast),
                      self.predictor_of_mean_flag, Lower(self.distribution),
                      The({Minimize(x0, outcome) : x0 \in {initial_guess}}))}})

\* lines 656-675: the predictor, the number of realizations and the initial
\* guess from the converted cubes
EstimateFromCubes(self, historic_forecast, truth, params, outcome) ==
    LET no_of_realizations ==
            IF Lower(self.predictor_of_mean_flag) = "mean" THEN 0
            ELSE Len(historic_forecast.realization)
        guessed(forecast_predictor) ==
            The({IF guess.raised # "none"
                 THEN Estimated(guess.raised, NoValue, {}, 0, 0, NoValue,
                                historic_forecast, truth)
                 ELSE EstimateFromGuess(self, historic_forecast, truth,
                                        forecast_predictor, guess.value,
                                        outcome) :
                 guess \in {compute_initial_guess(
                               self, truth, forecast_predictor,
                               self.predictor_of_mean_flag,
                               self.ESTIMATE_COEFFICIENTS_FROM_LINEAR_MODEL_FLAG,
                               no_of_realizations, params)}})
    IN  The({guessed(forecast_predictor) :
             forecast_predictor \in {ForecastPredictor(self, historic_forecast)}})

\* mutant: the units are not compared
UnitsDiffer_Never(historic_forecast, truth) == FALSE

\* historic_forecast.units != truth.units
UnitsDiffer(historic_forecast, truth) == historic_forecast.units # truth.units

\* estimate_coefficients_for_ngr; params (the OLS parameters) and outcome
\* (what minimize reports, as one of MinimizeChoices) are the results of the
\* libraries
estimate_coefficients_for_ngr(self, historic_forecast_in, truth_in, params, outcome) ==
    LET converted(historic_forecast, truth) ==
            IF UnitsDiffer(historic_forecast, truth)
            THEN Estimated("UnitMismatchError", NoValue, {}, 0, 0, NoValue,
                           historic_forecast, truth)
            ELSE EstimateFromCubes(self, historic_forecast, truth, params,
                                   outcome)
    IN  IF ~check_predictor_of_mean_flag(self.predictor_of_mean_flag)
        THEN Estimated("InvalidModeError", NoValue, {}, 0, 0, NoValue,
                       historic_forecast_in, truth_in)
        ELSE The({converted(historic_forecast, truth) :
                  historic_forecast \in
                      {AfterConversion(self, historic_forecast_in)},
                  truth \in {AfterConversion(self, truth_in)}})

-----------------------------------------------------------------------------
(* Calling estimate_coefficients_for_ngr *)

\* rows of a member over P grid points: constant, or rising with the point
EstimateRows(P) ==
    {[p \in 1..P |-> Q(20)], [p \in 1..P |-> Q(10 * p)]}

\* truths over P grid points: rising with the point, or missing everywhere
EstimateTruths(P) ==
    {[p \in 1..P |-> Q(10 * p + 10)], [p \in 1..P |-> NaN]}

\* historic forecasts of every ensemble size, all members alike, with the
\* matching truth, each in millimetres or centimetres
EstimateInputs ==
    {[historic_forecast |->
          HistoricForecast(
              Cube(Realizations(N), [m \in 1..N |-> row], u[1],
                   {1}, {11}, {5}),
              "air_temperature",
              {<<"mosg__model_configuration", "uk_ens">>}),
      truth |-> Field(t, u[2])] :
        N \in 1..MaxMembers, row \in EstimateRows(MaxPoints),
        t \in EstimateTruths(MaxPoints),
        u \in {"mm", "cm"} \X {"mm", "cm"}}

\* desired_units: "" stands for None (no conversion)
DesiredUnits == {"", "cm"}

\* the plugins constructed for an estimation
EstimatePlugins ==
    {EstimateInit(distribution, 10, desired_units, flag, statsmodels_found) :
        distribution \in {"Gaussian", "truncated gaussian", "poisson"},
        desired_units \in DesiredUnits,
        flag \in {f \in PredictorFlags : check_predictor_of_mean_flag(f)},
        statsmodels_found \in BOOLEAN}

InitEstimate ==
    /\ pc = "constructed"
    /\ plugin \in EstimatePlugins
    /\ args \in EstimateInputs
    /\ locals = NoValue
    /\ result = NoValue
    /\ raised = "none"
    /\ warned = {}
    /\ minimize_calls = 0

\* the number of columns of the OLS design matrix of an estimation, 1 when
\* it makes no OLS fit
EstimateColumns(self, input) ==
    IF /\ Lower(self.predictor_of_mean_flag) = "realizations"
       /\ self.ESTIMATE_COEFFICIENTS_FROM_LINEAR_MODEL_FLAG
       /\ self.statsmodels_found
    THEN DesignColumns(input.truth.data, input.historic_forecast.data)
    ELSE 1

\* ec.estimate_coefficients_for_ngr(historic_forecast, truth): args holds
\* the two cubes as they are passed, locals the same two cubes as the call
\* leaves them (convert_units works in place)
EstimateCoefficientsForNgr ==
    /\ pc = "constructed"
    /\ \E outcome \in MinimizeChoices,
          params \in OLSParams(EstimateColumns(plugin, args)) :
        \E r \in {estimate_coefficients_for_ngr(
                      plugin, args.historic_forecast, args.truth,
                      params, outcome)} :
            /\ locals' = [historic_forecast |-> r.historic_forecast,
                          truth |-> r.truth,
                          initial_guess |-> r.initial_guess,
                          wrapper_calls |-> r.wrapper_calls,
                          optimised_coeffs |->
                              IF r.calls = 1 /\ r.raised = "none"
                              THEN Minimize(r.initial_guess, outcome).x
                              ELSE NoValue]
            /\ raised' = r.raised
            /\ result' = r.value
            /\ warned' = r.warned
            /\ minimize_calls' = minimize_calls + r.calls
    /\ pc' = "estimated"
    /\ UNCHANGED <<plugin, args>>

NextEstimate == EstimateCoefficientsForNgr

SpecEstimate == InitEstimate /\ [][NextEstimate]_vars

\* the initial guess of the estimation has been computed
Guessed == pc = "estimated" /\ locals.initial_guess # NoValue

\* C6: when the initial guess contains NaN estimate_coefficients_for_ngr
\* calls neither crps_minimiser_wrapper nor minimize, and the record it
\* returns holds the initial guess unchanged; when the guess has no NaN it
\* calls crps_minimiser_wrapper exactly once, minimize at most once, and the
\* record it returns holds the vector minimize reported.
C6_NanGuessSkipsMinimiser ==
    Guessed =>
        IF HasNaN(locals.initial_guess)
        THEN /\ locals.wrapper_calls = 0
             /\ minimize_calls = 0
             /\ raised = "none" => result.data = locals.initial_guess
        ELSE /\ locals.wrapper_calls = 1
             /\ minimize_calls <= 1
             /\ raised = "none" =>
                    /\ minimize_calls = 1
                    /\ result.data = locals.optimised_coeffs

\* a constant ensemble mean gives the guess [1, 1, NaN, NaN], which is
\* packaged as it is without a call of the minimiser
C6_Witness ==
    /\ Guessed
    /\ raised = "none"
    /\ Lower(plugin.predictor_of_mean_flag) = "mean"
    /\ locals.initial_guess = <<Q(1), Q(1), NaN, NaN>>
    /\ result.data = <<Q(1), Q(1), NaN, NaN>>
    /\ minimize_calls = 0

\* a guess without NaN is minimised once and the record holds the vector
\* reported, here one that has moved from the guess
C6_WitnessMinimised ==
    /\ Guessed
    /\ raised = "none"
    /\ ~HasNaN(locals.initial_guess)
    /\ minimize_calls = 1
    /\ result.data = locals.optimised_coeffs
    /\ result.data # locals.initial_guess

\* the units differ after the conversion: there is no conversion and the
\* cubes are passed with different units
MismatchAfterConversion ==
    /\ plugin.desired_units = ""
    /\ args.historic_forecast.units # args.truth.units

\* C14: estimate_coefficients_for_ngr fails with the unit-mismatch error
\* exactly when the units of the historic forecast and of the truth differ
\* after the optional conversion to desired_units, and then no initial guess
\* has been computed, the minimiser has not run and no record is returned.
C14_UnitMismatch ==
    pc = "estimated" =>
        /\ MismatchAfterConversion <=> raised = "UnitMismatchError"
        /\ MismatchAfterConversion =>
               /\ locals.initial_guess = NoValue
               /\ locals.wrapper_calls = 0
               /\ minimize_calls = 0
               /\ result = NoValue

\* millimetres against centimetres without desired_units
C14_Witness ==
    /\ pc = "estimated"
    /\ plugin.desired_units = ""
    /\ args.historic_forecast.units = "mm"
    /\ args.truth.units = "cm"
    /\ raised = "UnitMismatchError"
    /\ locals.initial_guess = NoValue

\* C16: after estimate_coefficients_for_ngr returns or fails the historic
\* forecast and the truth passed in have the same data and the same units
\* as before the call, for every setting of desired_units.
C16_InputsReadOnly ==
    pc = "estimated" =>
        /\ locals.historic_forecast.data = args.historic_forecast.data
        /\ locals.historic_forecast.units = args.historic_forecast.units
        /\ locals.truth.data = args.truth.data
        /\ locals.truth.units = args.truth.units

\* without desired_units the cubes are left as they were passed
C16_UnconvertedUntouched ==
    (pc = "estimated" /\ plugin.desired_units = "") =>
        /\ locals.historic_forecast = args.historic_forecast
        /\ locals.truth = args.truth

-----------------------------------------------------------------------------
(* Several calls on one EstimateCoefficientsForEnsembleCalibration instance *)

\* largest number of calls of minimize made on one instance
MaxCalls == 1

\* the instances: either predictor, with and without statsmodels
InstancePlugins ==
    {EstimateInit("gaussian", 10, "", flag, statsmodels_found) :
        flag \in {"mean", "realizations"}, statsmodels_found \in BOOLEAN}

\* historic forecasts of every ensemble size with their truths, in one unit
InstanceInputs ==
    {i \in EstimateInputs :
        i.historic_forecast.units = "mm" /\ i.truth.units = "mm"}

\* what minimize reports in these calls: the start vector or a moved one,
\* converged
InstanceOutcomes ==
    {c \in MinimizeChoices : c.previous = "x" /\ c.nit = 1}

InitInstance ==
    /\ pc = "constructed"
    /\ plugin \in InstancePlugins
    /\ args = NoValue
    /\ locals = NoValue
    /\ result = NoValue
    /\ raised = "none"
    /\ warned = EstimateInitWarns(plugin.predictor_of_mean_flag,
                                  plugin.statsmodels_found)
    /\ minimize_calls = 0

\* ec.estimate_coefficients_for_ngr(historic_forecast, truth), on an
\* instance that may have been called before; the coefficients are packaged
\* by create_coefficients_cube when the call gets that far
EstimateAgain ==
    /\ pc \in {"constructed", "packaged", "estimated"}
    /\ minimize_calls < MaxCalls
    /\ \E input \in InstanceInputs, outcome \in InstanceOutcomes :
        \E params \in OLSParams(EstimateColumns(plugin, input)) :
        \E r \in {estimate_coefficients_for_ngr(
                      plugin, input.historic_forecast, input.truth,
                      params, outcome)} :
            /\ args' = input
            /\ locals' = [historic_forecast |-> r.historic_forecast,
                          truth |-> r.truth,
                          initial_guess |-> r.initial_guess,
                          wrapper_calls |-> r.wrapper_calls]
            /\ raised' = r.raised
            /\ result' = r.value
            /\ warned' = r.warned
            /\ minimize_calls' = minimize_calls + r.calls
            /\ plugin' = [plugin EXCEPT !.coeff_names =
                              IF r.value = NoValue THEN @
                              ELSE CoeffNamesAfter(plugin, r.historic_forecast)]
    /\ pc' = "estimated"

NextInstance == EstimateAgain \/ CreateCoefficientsCube

SpecInstance == InitInstance /\ [][NextInstance]_vars

\* the instance as its constructor leaves it
Fresh(self) ==
    EstimateInit(self.distribution, self.current_cycle, self.desired_units,
                 self.predictor_of_mean_flag, self.statsmodels_found)

\* the initial guess of the call that has ended is the one computed from the
\* cubes of that call
FreshGuess ==
    LET hf == locals'.historic_forecast
        realizations == Lower(plugin.predictor_of_mean_flag) = "realizations"
    IN  \E params \in OLSParams(EstimateColumns(plugin, args')) :
            locals'.initial_guess =
                compute_initial_guess(
                    Fresh(plugin), locals'.truth, ForecastPredictor(plugin, hf),
                    plugin.predictor_of_mean_flag, TRUE,
                    IF realizations THEN Len(hf.realization) ELSE 0,
                    params).value

\* C29: no state is carried between packaging and estimation calls on one
\* instance: every call leaves the instance as it was, with coeff_names
\* ['gamma', 'delta', 'alpha', 'beta']; after any sequence of calls a
\* packaging call returns what a newly constructed instance returns, in
\* realizations mode with N members exactly 3 + N names; and an estimation
\* call takes its initial guess from the cubes of that call.
C29_NoCarriedState ==
    [][/\ plugin' = plugin
       /\ plugin' = Fresh(plugin)
       /\ plugin'.coeff_names = <<"gamma", "delta", "alpha", "beta">>
       /\ pc' = "packaged" =>
              /\ \E r \in {create_coefficients_cube(
                                Fresh(plugin), args'.optimised_coeffs,
                                args'.historic_forecast)} :
                     raised' = r.raised /\ result' = r.cube
              /\ (/\ Lower(plugin.predictor_of_mean_flag) = "realizations"
                  /\ raised' = "none") =>
                     Len(result'.names) =
                         3 + Len(args'.historic_forecast.realization)
       /\ (pc' = "estimated" /\ locals'.initial_guess # NoValue) =>
              FreshGuess
       /\ (pc' = "estimated" /\ raised' = "none"
           /\ Lower(plugin.predictor_of_mean_flag) = "realizations") =>
              result'.names =
                  RealizationNames(args'.historic_forecast.realization)
      ]_vars

\* a packaging call for two members on an instance that has estimated
\* coefficients before
C29_Witness ==
    /\ pc = "packaged"
    /\ Lower(plugin.predictor_of_mean_flag) = "realizations"
    /\ minimize_calls = 1
    /\ Len(args.historic_forecast.realization) = 2
    /\ raised = "none"
    /\ result.names = <<"gamma", "delta", "alpha", "beta0", "beta1">>
    /\ plugin.coeff_names = <<"gamma", "delta", "alpha", "beta">>

-----------------------------------------------------------------------------
(* EnsembleCalibration *)

CalibrationMethods ==
    {"ensemble model output statistics",
     "Nonhomogeneous_Gaussian_Regression",
     "logistic regression"}

\* format_calibration_method: s.lower().replace("_", " ") on the names used
format_calibration_method(s) ==
    CASE s = "Nonhomogeneous_Gaussian_Regression" ->
             "nonhomogeneous gaussian regression"
      [] s = "Gaussian" -> "gaussian"
      [] s = "truncated_gaussian" -> "truncated gaussian"
      [] OTHER -> s

\* __init__: the arguments are stored, none is checked
EnsembleCalibrationInit(calibration_method, distribution, desired_units, predictor_of_mean_flag) ==
    [class |-> "EnsembleCalibration",
     calibration_method |-> calibration_method,
     distribution |-> distribution,
     desired_units |-> desired_units,
     predictor_of_mean_flag |-> predictor_of_mean_flag]

\* what a call of process reports: the error raised ("none" if it returns),
\* the pair of cubes returned, the steps that were started, the warnings,
\* the number of calls of minimize and the value of the local variable
\* coefficient_cube (NoValue while it is unbound)
Processed(raised_, value, started, warned_, calls, coefficient_cube) ==
    [raised |-> raised_, value |-> value, started |-> started,
     warned |-> warned_, calls |-> calls,
     coefficient_cube |-> coefficient_cube]

\* lines 976-988: the coefficients are applied to the current forecast; the
\* name coefficient_cube is read, which is an UnboundLocalError when no
\* estimation has assigned it
ProcessApply(self, current_forecast, coefficient_cube, started, warned_, calls) ==
    LET e == ApplyInitRaises(current_forecast, coefficient_cube,
                             self.predictor_of_mean_flag)
        ac == [class |-> "Apply", current_forecast |-> current_forecast,
               coefficients_cube |-> coefficient_cube,
               predictor_of_mean_flag |-> self.predictor_of_mean_flag]
        now == started \cup {"application"}
    IN  IF coefficient_cube = NoValue
        THEN Processed("UnboundLocalError", NoValue, started, warned_, calls,
                       NoValue)
        ELSE IF e # "none"
        THEN Processed(e, NoValue, now, warned_, calls, coefficient_cube)
        ELSE The({Processed(applied.raised,
                            IF applied.raised = "none"
                            THEN [predictor |-> applied.predictor,
                                  variance |-> applied.variance]
                            ELSE NoValue,
                            now, warned_, calls, coefficient_cube) :
                  applied \in {apply_params_entry(ac)}})

\* lines 961-970: the current cycle is the forecast_reference_time of the
\* current forecast; the estimation plugin is constructed and called
ProcessEstimate(self, current_forecast, historic_forecast, truth, statsmodels_found, params, outcome) ==
    LET frt == current_forecast.forecast_reference_time
        ec == EstimateInit(self.distribution, CHOOSE t \in frt : TRUE,
                           self.desired_units, self.predictor_of_mean_flag,
                           statsmodels_found)
        w == EstimateInitWarns(self.predictor_of_mean_flag, statsmodels_found)
    IN  IF frt = {}
        THEN Processed("CoordinateNotFoundError", NoValue, {}, {}, 0, NoValue)
        ELSE The({IF estimated.raised # "none"
                  THEN Processed(estimated.raised, NoValue, {"estimation"},
                                 w \cup estimated.warned, estimated.calls,
                                 NoValue)
                  ELSE ProcessApply(self, current_forecast, estimated.value,
                                    {"estimation"}, w \cup estimated.warned,
                                    estimated.calls) :
                  estimated \in {estimate_coefficients_for_ngr(
                                     ec, historic_forecast, truth, params,
                                     outcome)}})

\* mutant: the calibration method is tested before the predictor flag
process_MethodFirst(self, current_forecast, historic_forecast, truth, statsmodels_found, params, outcome) ==
    IF format_calibration_method(self.calibration_method) \notin
            {"ensemble model output statistics",
             "nonhomogeneous gaussian regression"}
    THEN Processed("ValueError", NoValue, {}, {}, 0, NoValue)
    ELSE IF ~check_predictor_of_mean_flag(self.predictor_of_mean_flag)
    THEN Processed("InvalidModeError", NoValue, {}, {}, 0, NoValue)
    ELSE IF format_calibration_method(self.distribution) \in
                {"gaussian", "truncated gaussian"}
    THEN ProcessEstimate(self, current_forecast, historic_forecast, truth,
                         statsmodels_found, params, outcome)
    ELSE ProcessApply(self, current_forecast, NoValue, {}, {}, 0)

\* process: statsmodels_found, params and outcome are what the environment
\* and the libraries give. The if on the distribution (line 959) has no
\* else: for a distribution that is not in its list nothing is estimated and
\* coefficient_cube stays unbound
process(self, current_forecast, historic_forecast, truth, statsmodels_found, params, outcome) ==
    IF ~check_predictor_of_mean_flag(self.predictor_of_mean_flag)
    THEN Processed("InvalidModeError", NoValue, {}, {}, 0, NoValue)
    ELSE IF format_calibration_method(self.calibration_method) \notin
                {"ensemble model output statistics",
                 "nonhomogeneous gaussian regression"}
    THEN Processed("ValueError", NoValue, {}, {}, 0, NoValue)
    ELSE IF format_calibration_method(self.distribution) \in
                {"gaussian", "truncated gaussian"}
    THEN ProcessEstimate(self, current_forecast, historic_forecast, truth,
                         statsmodels_found, params, outcome)
    ELSE ProcessApply(self, current_forecast, NoValue, {}, {}, 0)

-----------------------------------------------------------------------------
(* Calling EnsembleCalibration.process *)

\* the plugins over supported and unsupported methods, distributions and
\* modes
ProcessPlugins ==
    {EnsembleCalibrationInit(method, distribution, desired_units, flag) :
        method \in CalibrationMethods,
        distribution \in {"gaussian", "Gaussian", "truncated_gaussian",
                          "poisson"},
        desired_units \in DesiredUnits,
        flag \in {"mean", "realizations", "median"}}

\* the current forecast is the historic forecast seen at cycle 10 (with or
\* without a forecast_reference_time); historic forecast and truth in
\* millimetres
ProcessInputs ==
    {[current_forecast |->
          Cube(i.historic_forecast.realization, i.historic_forecast.data,
               "mm", {1}, {11}, frt),
      historic_forecast |-> i.historic_forecast,
      truth |-> i.truth] :
        i \in {j \in EstimateInputs :
                  j.historic_forecast.units = "mm" /\ j.truth.units = "mm"},
        frt \in {{}, {10}}}

InitProcess ==
    /\ pc = "constructed"
    /\ plugin \in ProcessPlugins
    /\ args \in ProcessInputs
    /\ locals = NoValue
    /\ result = NoValue
    /\ raised = "none"
    /\ warned = {}
    /\ minimize_calls = 0

\* plugin.process(current_forecast, historic_forecast, truth)
Process ==
    /\ pc = "constructed"
    /\ \E statsmodels_found \in BOOLEAN, outcome \in MinimizeChoices :
        \E params \in OLSParams(
               IF Lower(plugin.predictor_of_mean_flag) = "realizations"
                  /\ statsmodels_found
               THEN DesignColumns(args.truth.data, args.historic_forecast.data)
               ELSE 1) :
            \E r \in {process(plugin, args.current_forecast,
                              args.historic_forecast, args.truth,
                              statsmodels_found, params, outcome)} :
                /\ raised' = r.raised
                /\ result' = r.value
                /\ locals' = [started |-> r.started,
                              coefficient_cube |-> r.coefficient_cube]
                /\ warned' = r.warned
                /\ minimize_calls' = minimize_calls + r.calls
    /\ pc' = "processed"
    /\ UNCHANGED <<plugin, args>>

NextProcess == Process

SpecProcess == InitProcess /\ [][NextProcess]_vars

\* the calibration method of the plugin is one of the two supported ones
MethodSupported ==
    plugin.calibration_method \in
        {"ensemble model output statistics",
         "Nonhomogeneous_Gaussian_Regression"}

\* C11: process called with a supported calibration method (and a supported
\* mode) and a distribution that is neither gaussian nor truncated gaussian
\* fails with the unsupported-distribution error, without starting the
\* estimation or the application.
C11_UnsupportedDistribution ==
    (/\ pc = "processed"
     /\ MethodSupported
     /\ plugin.predictor_of_mean_flag \in {"mean", "realizations"}
     /\ plugin.distribution = "poisson") =>
        /\ raised = "UnsupportedDistributionError"
        /\ locals.started = {}

\* what process does for such a distribution: it skips the estimation and
\* fails with the UnboundLocalError for coefficient_cube
C11_UnboundCoefficientCube ==
    (/\ pc = "processed"
     /\ MethodSupported
     /\ plugin.predictor_of_mean_flag \in {"mean", "realizations"}
     /\ plugin.distribution = "poisson") =>
        /\ raised = "UnboundLocalError"
        /\ locals.started = {}
        /\ result = NoValue

\* the test that process makes on the distribution
DistributionAccepted ==
    format_calibration_method(plugin.distribution) \in
        {"gaussian", "truncated gaussian"}

\* C27: every distribution name that process accepts (lowercased and with
\* underscores replaced by spaces it is 'gaussian' or 'truncated gaussian')
\* is found in the objective table of the minimizer wrapper: a call of
\* process with an accepted name does not fail as an unsupported
\* distribution.
C27_AcceptedIsRegistered ==
    (pc = "processed" /\ DistributionAccepted) =>
        raised # "UnsupportedDistributionError"

\* the accepted names that are lowercase forms of the keys of the table
\* do not fail in this way
C27_RegisteredWhenSpelledWithSpaces ==
    (pc = "processed" /\ Lower(plugin.distribution) \in minimisation_dict) =>
        raised # "UnsupportedDistributionError"

\* the predictor flag of the plugin is one that check_predictor_of_mean_flag
\* lets pass
FlagValid == check_predictor_of_mean_flag(plugin.predictor_of_mean_flag)

\* the application plugin that process constructs from the coefficients
\* that the estimation returned
ApplicationOf(coefficient_cube) ==
    [class |-> "Apply", current_forecast |-> args.current_forecast,
     coefficients_cube |-> coefficient_cube,
     predictor_of_mean_flag |-> plugin.predictor_of_mean_flag]

\* C28: process validates the predictor flag first, then the calibration
\* method: a method other than ensemble model output statistics or
\* nonhomogeneous gaussian regression fails with an error before any
\* estimation or application is started; for a supported method the
\* application begins only after the estimation has returned its
\* coefficients, and the cubes returned are those of applying these
\* coefficients to the current forecast.
C28_ModeThenMethod ==
    pc = "processed" =>
        /\ ~FlagValid =>
               (raised = "InvalidModeError" /\ locals.started = {})
        /\ (FlagValid /\ ~MethodSupported) =>
               /\ raised = "ValueError"
               /\ locals.started = {}
               /\ result = NoValue
        /\ "application" \in locals.started =>
               /\ FlagValid /\ MethodSupported
               /\ "estimation" \in locals.started
               /\ locals.coefficient_cube # NoValue
        /\ raised = "none" =>
               /\ locals.started = {"estimation", "application"}
               /\ \E applied \in
                      {apply_params_entry(
                           ApplicationOf(locals.coefficient_cube))} :
                      /\ applied.raised = "none"
                      /\ result = [predictor |-> applied.predictor,
                                   variance |-> applied.variance]

\* an unsupported method with an invalid flag: the flag is reported
C28_Witness ==
    /\ pc = "processed"
    /\ plugin.calibration_method = "logistic regression"
    /\ plugin.predictor_of_mean_flag = "median"
    /\ raised = "InvalidModeError"
    /\ locals.started = {}

\* a call that estimates and then applies
C28_WitnessApplied ==
    /\ pc = "processed"
    /\ raised = "none"
    /\ locals.started = {"estimation", "application"}
    /\ locals.coefficient_cube # NoValue
    /\ plugin.calibration_method = "Nonhomogeneous_Gaussian_Regression"

-----------------------------------------------------------------------------
(* utilities.spatial.OccurrenceWithinVicinity and its unit tests *)

\* side of the square grids of the calls that are not taken from the tests
GridSize == 3

\* the largest of a non-empty set of values
MaxQ(S) == CHOOSE m \in S : \A v \in S : ~Less(m, v)

\* an array given by its rows in tenths (10 is 1.0, 5 is 0.5)
Tenths(rows) ==
    [y \in 1..Len(rows) |-> [x \in 1..Len(rows[y]) |-> Norm(rows[y][x], 10)]]

\* np.zeros((n, n)) with the elements of f assigned; f maps <<y, x>>
\* (counted from 0 as the tests do) to values in tenths
ZerosWith(n, f) ==
    [y \in 1..n |-> [x \in 1..n |->
        IF <<y - 1, x - 1>> \in DOMAIN f THEN Norm(f[<<y - 1, x - 1>>], 10)
        ELSE Q(0)]]

\* a mask of the same shape, set at the positions of S
MaskAt(n, S) == [y \in 1..n |-> [x \in 1..n |-> <<y - 1, x - 1>> \in S]]

\* a cube as the plugin sees it: data[s][y][x] and mask[s][y][x] over the
\* realization/time slices s, on a grid of the given spacing in metres
VicinityCube(data, mask, spacing) ==
    [data |-> data, mask |-> mask, spacing |-> spacing]

\* the number of grid cells that the distance spans
distance_to_number_of_grid_cells(cube, distance) == distance \div cube.spacing

\* the data with -inf at the masked points
UnmaskedCubeData(data, mask, y, x) ==
    IF mask[y][x] THEN NegInf ELSE data[y][x]

\* scipy's maximum_filter(unmasked_cube_data, size=grid_cells) at a point:
\* the maximum over the square of 2 * grid_spacing + 1 cells centred on it
MaximumFilter(data, mask, grid_spacing, y, x) ==
    MaxQ({UnmaskedCubeData(data, mask, j, i) :
            j \in {k \in 1..Len(data) : Abs(k - y) <= grid_spacing},
            i \in {k \in 1..Len(data[1]) : Abs(k - x) <= grid_spacing}})

\* mutant: the masked values are not replaced before the filter
maximum_within_vicinity_MaskedCount(self, data, mask, spacing) ==
    LET grid_spacing ==
            distance_to_number_of_grid_cells([spacing |-> spacing],
                                             self.distance)
        nomask == [y \in 1..Len(data) |-> [x \in 1..Len(data[1]) |-> FALSE]]
    IN  [y \in 1..Len(data) |-> [x \in 1..Len(data[1]) |->
            IF mask[y][x] THEN data[y][x]
            ELSE MaximumFilter(data, nomask, grid_spacing, y, x)]]

\* maximum_within_vicinity on one y-x slice: the data of the cube returned
\* (its mask is the mask of the input); only the unmasked points are updated
maximum_within_vicinity(self, data, mask, spacing) ==
    LET grid_spacing ==
            distance_to_number_of_grid_cells([spacing |-> spacing],
                                             self.distance)
    IN  [y \in 1..Len(data) |-> [x \in 1..Len(data[1]) |->
            IF mask[y][x] THEN data[y][x]
            ELSE MaximumFilter(data, mask, grid_spacing, y, x)]]

\* process: maximum_within_vicinity on every y-x slice, merged again
vicinity_process(self, cube) ==
    [cube EXCEPT !.data =
        [s \in 1..Len(cube.data) |->
            maximum_within_vicinity(self, cube.data[s], cube.mask[s],
                                    cube.spacing)]]

\* Test_maximum_within_vicinity.test_basic
test_basic ==
    [name |-> "test_basic", method |-> "maximum_within_vicinity",
     distance |-> 2000,
     cube |-> VicinityCube(
         <<ZerosWith(5, (<<0, 1>> :> 10) @@ (<<2, 3>> :> 10))>>,
         <<MaskAt(5, {})>>, 2000),
     expected |-> <<Tenths(<<
         <<10, 10, 10, 0, 0>>,
         <<10, 10, 10, 10, 10>>,
         <<0, 0, 10, 10, 10>>,
         <<0, 0, 10, 10, 10>>,
         <<0, 0, 0, 0, 0>> >>)>>]

\* Test_maximum_within_vicinity.test_fuzzy
test_fuzzy ==
    [name |-> "test_fuzzy", method |-> "maximum_within_vicinity",
     distance |-> 2000,
     cube |-> VicinityCube(
         <<ZerosWith(5, (<<0, 1>> :> 10) @@ (<<2, 3>> :> 5))>>,
         <<MaskAt(5, {})>>, 2000),
     expected |-> <<Tenths(<<
         <<10, 10, 10, 0, 0>>,
         <<10, 10, 10, 5, 5>>,
         <<0, 0, 5, 5, 5>>,
         <<0, 0, 5, 5, 5>>,
         <<0, 0, 0, 0, 0>> >>)>>]

\* Test_maximum_within_vicinity.test_different_distance
test_different_distance ==
    [name |-> "test_different_distance", method |-> "maximum_within_vicinity",
     distance |-> 4000,
     cube |-> VicinityCube(
         <<ZerosWith(5, (<<0, 1>> :> 10) @@ (<<2, 3>> :> 10))>>,
         <<MaskAt(5, {})>>, 2000),
     expected |-> <<Tenths(<<
         <<10, 10, 10, 10, 10>>,
         <<10, 10, 10, 10, 10>>,
         <<10, 10, 10, 10, 10>>,
         <<0, 10, 10, 10, 10>>,
         <<0, 10, 10, 10, 10>> >>)>>]

\* Test_maximum_within_vicinity.test_masked_data
test_masked_data ==
    [name |-> "test_masked_data", method |-> "maximum_within_vicinity",
     distance |-> 2000,
     cube |-> VicinityCube(
         <<ZerosWith(5, (<<0, 1>> :> 10) @@ (<<2, 3>> :> 10) @@
                        (<<0, 4>> :> 100))>>,
         <<MaskAt(5, {<<0, 4>>})>>, 2000),
     expected |-> <<Tenths(<<
         <<10, 10, 10, 0, 100>>,
         <<10, 10, 10, 10, 10>>,
         <<0, 0, 10, 10, 10>>,
         <<0, 0, 10, 10, 10>>,
         <<0, 0, 0, 0, 0>> >>)>>]

\* Test_process.test_with_multiple_realizations_and_times: the slices
\* [0, 0], [0, 1], [1, 0], [1, 1] of the (2, 2, 4, 4) array
test_with_multiple_realizations_and_times ==
    [name |-> "test_with_multiple_realizations_and_times",
     method |-> "process",
     distance |-> 2000,
     cube |-> VicinityCube(
         <<ZerosWith(4, <<2, 1>> :> 10), ZerosWith(4, <<>>),
           ZerosWith(4, <<>>), ZerosWith(4, <<1, 3>> :> 10)>>,
         <<MaskAt(4, {}), MaskAt(4, {}), MaskAt(4, {}), MaskAt(4, {})>>,
         2000),
     expected |-> <<
         Tenths(<< <<0, 0, 0, 0>>, <<10, 10, 10, 0>>,
                   <<10, 10, 10, 0>>, <<10, 10, 10, 0>> >>),
         Tenths(<< <<0, 0, 0, 0>>, <<0, 0, 0, 0>>,
                   <<0, 0, 0, 0>>, <<0, 0, 0, 0>> >>),
         Tenths(<< <<0, 0, 0, 0>>, <<0, 0, 0, 0>>,
                   <<0, 0, 0, 0>>, <<0, 0, 0, 0>> >>),
         Tenths(<< <<0, 0, 10, 10>>, <<0, 0, 10, 10>>,
                   <<0, 0, 10, 10>>, <<0, 0, 0, 0>> >>) >>]

VicinityTests ==
    {test_basic, test_fuzzy, test_different_distance, test_masked_data,
     test_with_multiple_realizations_and_times}

\* the positions of a grid of side n, counted from 0
Positions(n) == (0..(n - 1)) \X (0..(n - 1))

\* calls in the manner of the tests on grids of side GridSize: one slice
\* with one occurrence and at most one masked point of value 10.0, and two
\* slices with one occurrence each
VicinityCalls ==
    {[name |-> "slice", method |-> "maximum_within_vicinity",
      distance |-> d,
      cube |-> VicinityCube(
          <<ZerosWith(GridSize,
                      [q \in {p} \cup m |-> IF q \in m THEN 100 ELSE 10])>>,
          <<MaskAt(GridSize, m)>>, 2000),
      expected |-> <<>>] :
        d \in {2000, 4000}, p \in Positions(GridSize),
        m \in {{}} \cup {{q} : q \in Positions(GridSize)}} \cup
    {[name |-> "slices", method |-> "process",
      distance |-> 2000,
      cube |-> VicinityCube(
          <<ZerosWith(GridSize, p :> 10), ZerosWith(GridSize, q :> 5)>>,
          <<MaskAt(GridSize, {}), MaskAt(GridSize, {})>>, 2000),
      expected |-> <<>>] :
        p \in Positions(GridSize), q \in Positions(GridSize)}

InitVicinity ==
    /\ pc = "start"
    /\ args \in VicinityTests \cup VicinityCalls
    /\ plugin = [class |-> "OccurrenceWithinVicinity",
                 distance |-> args.distance]
    /\ locals = NoValue
    /\ result = NoValue
    /\ raised = "none"
    /\ warned = {}
    /\ minimize_calls = 0

\* OccurrenceWithinVicinity(distance).maximum_within_vicinity(cube)
MaximumWithinVicinity ==
    /\ pc = "start"
    /\ args.method = "maximum_within_vicinity"
    /\ result' = [args.cube EXCEPT !.data =
                     <<maximum_within_vicinity(plugin, args.cube.data[1],
                                               args.cube.mask[1],
                                               args.cube.spacing)>>]
    /\ pc' = "done"
    /\ UNCHANGED <<plugin, args, locals, raised, warned, minimize_calls>>

\* OccurrenceWithinVicinity(distance)(cube)
VicinityProcess ==
    /\ pc = "start"
    /\ args.method = "process"
    /\ result' = vicinity_process(plugin, args.cube)
    /\ pc' = "done"
    /\ UNCHANGED <<plugin, args, locals, raised, warned, minimize_calls>>

NextVicinity == MaximumWithinVicinity \/ VicinityProcess

SpecVicinity == InitVicinity /\ [][NextVicinity]_vars

\* the points of slice s of the input
PointsOf(s) ==
    (1..Len(args.cube.data[s])) \X (1..Len(args.cube.data[s][1]))

\* the unmasked points of slice s
UnmaskedOf(s) == {q \in PointsOf(s) : ~args.cube.mask[s][q[1]][q[2]]}

\* q lies within the distance of p, as the crow flies
WithinDistance(p, q) ==
    ((p[1] - q[1]) * (p[1] - q[1]) + (p[2] - q[2]) * (p[2] - q[2]))
        * ((args.cube.spacing \div 1000) * (args.cube.spacing \div 1000))
    <= (plugin.distance \div 1000) * (plugin.distance \div 1000)

\* q lies within the distance of p along each of the two grid axes
WithinSquare(p, q) ==
    /\ Abs(p[1] - q[1]) * args.cube.spacing <= plugin.distance
    /\ Abs(p[2] - q[2]) * args.cube.spacing <= plugin.distance

\* shape and mask are those of the input, and the masked points keep their
\* values
ShapeAndMaskKept ==
    /\ Len(result.data) = Len(args.cube.data)
    /\ result.mask = args.cube.mask
    /\ \A s \in 1..Len(args.cube.data) :
        /\ Len(result.data[s]) = Len(args.cube.data[s])
        /\ \A y \in 1..Len(args.cube.data[s]) :
               Len(result.data[s][y]) = Len(args.cube.data[s][y])
        /\ \A p \in PointsOf(s) \ UnmaskedOf(s) :
               result.data[s][p[1]][p[2]] = args.cube.data[s][p[1]][p[2]]

\* C23 as stated: every unmasked point gets the maximum of the unmasked
\* values of its own slice that lie within the distance of it; masked points
\* contribute nothing and keep value and mask; the shape is kept.
C23_MaximumWithinDistance ==
    pc = "done" =>
        /\ ShapeAndMaskKept
        /\ \A s \in 1..Len(args.cube.data) : \A p \in UnmaskedOf(s) :
               result.data[s][p[1]][p[2]] =
                   MaxQ({args.cube.data[s][q[1]][q[2]] :
                           q \in {u \in UnmaskedOf(s) : WithinDistance(p, u)}})

\* C23 as amended: every unmasked point gets the maximum of the unmasked
\* values of its own slice that lie within the distance of it along each grid
\* axis (a square, which includes the diagonal neighbours); masked points
\* contribute nothing and keep value and mask; the shape is kept; the arrays
\* that the unit tests expect are the ones obtained.
C23_MaximumWithinSquare ==
    pc = "done" =>
        /\ ShapeAndMaskKept
        /\ \A s \in 1..Len(args.cube.data) : \A p \in UnmaskedOf(s) :
               result.data[s][p[1]][p[2]] =
                   MaxQ({args.cube.data[s][q[1]][q[2]] :
                           q \in {u \in UnmaskedOf(s) : WithinSquare(p, u)}})
        /\ args.expected # <<>> => result.data = args.expected

\* test_masked_data: the masked 10.0 is kept and not spread to its
\* neighbours, and the occurrence at [0, 1] reaches the diagonal neighbour
\* [1, 0]
C23_Witness ==
    /\ pc = "done"
    /\ args.name = "test_masked_data"
    /\ result.data[1][1][5] = Q(10)
    /\ result.mask[1][1][5]
    /\ result.data[1][1][4] = Q(0)
    /\ result.data[1][2][1] = Q(1)

\* two slices: the occurrence of the first slice does not show in the second
C23_WitnessSlices ==
    /\ pc = "done"
    /\ args.name = "test_with_multiple_realizations_and_times"
    /\ result.data[1][3][2] = Q(1)
    /\ \A y \in 1..4 : \A x \in 1..4 : result.data[2][y][x] = Q(0)

-----------------------------------------------------------------------------
(* cli.nbhood_iterate_with_mask.main *)

\* the words that follow an option on the command line: none when the
\* option is not there
Absent == <<>>

\* None in the namespace; a value that may be None is a tuple (a number, a
\* list of words, or the one word of a path)
None == <<>>

\* the value of a decimal digit
DigitValue(c) ==
    CASE c = "0" -> 0 [] c = "1" -> 1 [] c = "2" -> 2 [] c = "3" -> 3
      [] c = "4" -> 4 [] c = "5" -> 5 [] c = "6" -> 6 [] c = "7" -> 7
      [] c = "8" -> 8 [] c = "9" -> 9

RECURSIVE DecimalValue(_)
DecimalValue(word) ==
    IF word = <<>> THEN 0
    ELSE 10 * DecimalValue(SubSeq(word, 1, Len(word) - 1))
             + DigitValue(word[Len(word)])

\* type=float of --radius, on words of digits
Float(word) == Q(DecimalValue(word))

RECURSIVE Split(_, _)
\* str.split(sep): the pieces between the separators, empty pieces kept
Split(word, sep) ==
    IF \A k \in 1..Len(word) : word[k] # sep THEN <<word>>
    ELSE LET k == CHOOSE j \in 1..Len(word) :
                      word[j] = sep /\ \A h \in 1..(j - 1) : word[h] # sep
         IN  <<SubSeq(word, 1, k - 1)>>
                 \o Split(SubSeq(word, k + 1, Len(word)), sep)

\* the command lines: the four positional words are always there, the
\* options are there or not
CommandLines ==
    [radius : {Absent, << <<"0">> >>, << <<"5", "0">> >>},
     radii_by_lead_time :
         {Absent, << <<"5", "0", ",", "7", "0">>, <<"1", ",", "2">> >>},
     sum_or_fraction : {Absent, <<"sum">>},
     re_mask : BOOLEAN,
     collapse_dimension : BOOLEAN,
     weights_for_collapsing_dim : {Absent, <<"weights.nc">>},
     intermediate_filepath : {Absent, <<"intermediate.nc">>}]

\* parser.parse_args(args=argv): the options of one mutually exclusive
\* group may not come together, and neither group is required; the defaults
\* are None, "fraction" and False
parse_args(argv) ==
    IF \/ argv.radius # Absent /\ argv.radii_by_lead_time # Absent
       \/ argv.re_mask /\ argv.collapse_dimension
    THEN [raised |-> "SystemExit", args |-> NoValue]
    ELSE [raised |-> "none",
          args |->
              [coord_for_masking |-> "topographic_zone",
               input_filepath |-> "input.nc",
               input_mask_filepath |-> "mask.nc",
               output_filepath |-> "output.nc",
               radius |-> IF argv.radius = Absent THEN None
                          ELSE Float(argv.radius[1]),
               radii_by_lead_time |->
                   IF argv.radii_by_lead_time = Absent THEN None
                   ELSE argv.radii_by_lead_time,
               sum_or_fraction |->
                   IF argv.sum_or_fraction = Absent THEN "fraction"
                   ELSE argv.sum_or_fraction[1],
               re_mask |-> argv.re_mask,
               collapse_dimension |-> argv.collapse_dimension,
               weights_for_collapsing_dim |->
                   IF argv.weights_for_collapsing_dim = Absent THEN None
                   ELSE argv.weights_for_collapsing_dim,
               intermediate_filepath |->
                   IF argv.intermediate_filepath = Absent THEN None
                   ELSE argv.intermediate_filepath]]

\* the truth value of args.radius: None and 0.0 are false
RadiusTruthy(radius) == radius # None /\ radius # Q(0)

\* the names that main has bound, and the calls it has made so far
MainLocals(bound, radius_or_radii, lead_times, calls) ==
    [bound |-> bound, radius_or_radii |-> radius_or_radii,
     lead_times |-> lead_times, calls |-> calls]

InitCli ==
    /\ pc = "start"
    /\ plugin = NoPlugin
    /\ args \in CommandLines
    /\ locals = MainLocals({}, None, None, <<>>)
    /\ result = NoValue
    /\ raised = "none"
    /\ warned = {}
    /\ minimize_calls = 0

\* args = parser.parse_args(args=argv)
ParseArgs ==
    /\ pc = "start"
    /\ \E r \in {parse_args(args)} :
        /\ raised' = r.raised
        /\ args' = IF r.raised = "none" THEN r.args ELSE args
        /\ locals' = IF r.raised = "none"
                     THEN [locals EXCEPT !.bound = @ \cup {"args"}]
                     ELSE locals
        /\ pc' = IF r.raised = "none" THEN "parsed" ELSE "done"
    /\ UNCHANGED <<plugin, result, warned, minimize_calls>>

\* cube = load_cube(args.input_filepath);
\* mask_cube = load_cube(args.input_mask_filepath)
LoadCubes ==
    /\ pc = "parsed"
    /\ locals' = [locals EXCEPT
                     !.bound = @ \cup {"cube", "mask_cube"},
                     !.calls = @ \o << <<"load_cube", args.input_filepath>>,
                                       <<"load_cube",
                                         args.input_mask_filepath>> >>]
    /\ pc' = "loaded"
    /\ UNCHANGED <<plugin, args, result, raised, warned, minimize_calls>>

\* if args.radius: ... elif args.radii_by_lead_time: ...  (no else)
BindRadius ==
    /\ pc = "loaded"
    /\ locals' =
           IF RadiusTruthy(args.radius)
           THEN [locals EXCEPT
                    !.bound = @ \cup {"radius_or_radii", "lead_times"},
                    !.radius_or_radii = args.radius,
                    !.lead_times = None]
           ELSE IF args.radii_by_lead_time # None
           THEN [locals EXCEPT
                    !.bound = @ \cup {"radius_or_radii", "lead_times"},
                    !.radius_or_radii =
                        Split(args.radii_by_lead_time[1], ","),
                    !.lead_times = Split(args.radii_by_lead_time[2], ",")]
           ELSE locals
    /\ pc' = "bound"
    /\ UNCHANGED <<plugin, args, result, raised, warned, minimize_calls>>

\* result = ApplyNeighbourhoodProcessingWithAMask(
\*     args.coord_for_masking, radius_or_radii, lead_times=lead_times,
\*     ...).process(cube, mask_cube)
ApplyNeighbourhood ==
    /\ pc = "bound"
    /\ IF {"radius_or_radii", "lead_times"} \subseteq locals.bound
       THEN /\ result' = "neighbourhooded"
            /\ locals' = [locals EXCEPT
                             !.bound = @ \cup {"result"},
                             !.calls = Append(@,
                                 <<"ApplyNeighbourhoodProcessingWithAMask",
                                   locals.radius_or_radii,
                                   locals.lead_times,
                                   args.sum_or_fraction, args.re_mask>>)]
            /\ raised' = "none"
            /\ pc' = "processed"
       ELSE /\ raised' = "UnboundLocalError"
            /\ pc' = "done"
            /\ UNCHANGED <<result, locals>>
    /\ UNCHANGED <<plugin, args, warned, minimize_calls>>

\* if args.intermediate_filepath is not None:
\*     save_netcdf(result, args.intermediate_filepath)
SaveIntermediate ==
    /\ pc = "processed"
    /\ locals' =
           IF args.intermediate_filepath # None
           THEN [locals EXCEPT !.calls = Append(@,
                    <<"save_netcdf", result, args.intermediate_filepath>>)]
           ELSE locals
    /\ pc' = "intermediate"
    /\ UNCHANGED <<plugin, args, result, raised, warned, minimize_calls>>

\* if args.collapse_dimension: weights = load_cube(...); result =
\* CollapseMaskedNeighbourhoodCoordinate(...).process(result).
\* What load_cube makes of a path that is None is not fixed here: it
\* returns or it raises.
Collapse ==
    /\ pc = "intermediate"
    /\ IF args.collapse_dimension
       THEN \E loaded \in IF args.weights_for_collapsing_dim = None
                          THEN BOOLEAN ELSE {TRUE} :
                IF loaded
                THEN /\ result' = "collapsed"
                     /\ locals' = [locals EXCEPT
                            !.bound = @ \cup {"weights"},
                            !.calls = @ \o
                              << <<"load_cube",
                                   args.weights_for_collapsing_dim>>,
                                 <<"CollapseMaskedNeighbourhoodCoordinate",
                                   result>> >>]
                     /\ raised' = "none"
                     /\ pc' = "collapsed"
                ELSE /\ raised' = "load_cube error"
                     /\ locals' = [locals EXCEPT !.calls = Append(@,
                            <<"load_cube", args.weights_for_collapsing_dim>>)]
                     /\ pc' = "done"
                     /\ UNCHANGED result
       ELSE /\ pc' = "collapsed"
            /\ UNCHANGED <<result, locals, raised>>
    /\ UNCHANGED <<plugin, args, warned, minimize_calls>>

\* save_netcdf(result, args.output_filepath)
SaveOutput ==
    /\ pc = "collapsed"
    /\ locals' = [locals EXCEPT !.calls = Append(@,
                     <<"save_netcdf", result, args.output_filepath>>)]
    /\ pc' = "done"
    /\ UNCHANGED <<plugin, args, result, raised, warned, minimize_calls>>

NextCli ==
    \/ ParseArgs
    \/ LoadCubes
    \/ BindRadius
    \/ ApplyNeighbourhood
    \/ SaveIntermediate
    \/ Collapse
    \/ SaveOutput

SpecCli == InitCli /\ [][NextCli]_vars

\* the calls of one kind among the calls made
CallsOf(kind) ==
    SelectSeq(locals.calls, LAMBDA c : c[1] = kind)

\* C30: for every command line the parser accepts, main comes to the
\* neighbourhood plugin with radius_or_radii and lead_times both bound.
C30_RadiusBoundAtPlugin ==
    pc = "bound" => {"radius_or_radii", "lead_times"} \subseteq locals.bound

\* an accepted command line with neither --radius nor --radii-by-lead-time,
\* or with --radius 0, ends in the UnboundLocalError before anything is saved
C30_UnboundWithoutRadius ==
    (pc = "done" /\ raised = "UnboundLocalError") <=>
        (/\ pc = "done"
         /\ "args" \in locals.bound
         /\ ~RadiusTruthy(args.radius)
         /\ args.radii_by_lead_time = None
         /\ CallsOf("save_netcdf") = <<>>)

\* C30, the order of the calls once the plugin has been reached: the
\* intermediate result is saved if and only if a path was given, and it is
\* the result before collapsing; collapsing happens if and only if
\* --collapse_dimension is set; the output is saved last and once.
C30_SavedInOrder ==
    (pc = "done" /\ raised = "none") =>
        LET after == SubSeq(locals.calls, 4, Len(locals.calls))
            intermediate ==
                IF args.intermediate_filepath # None
                THEN << <<"save_netcdf", "neighbourhooded",
                          args.intermediate_filepath>> >>
                ELSE <<>>
            collapsing ==
                IF args.collapse_dimension
                THEN << <<"load_cube", args.weights_for_collapsing_dim>>,
                        <<"CollapseMaskedNeighbourhoodCoordinate",
                          "neighbourhooded">> >>
                ELSE <<>>
            output ==
                << <<"save_netcdf",
                     IF args.collapse_dimension THEN "collapsed"
                     ELSE "neighbourhooded",
                     args.output_filepath>> >>
        IN  /\ locals.calls[3][1] = "ApplyNeighbourhoodProcessingWithAMask"
            /\ after = intermediate \o collapsing \o output

====
